---- MODULE Spec2Model ----
(***************************************************************************)
(* Room-coordination engine of vkara-api (server.ts).                      *)
(*                                                                         *)
(* The store (redis) holds room:<id> blobs and client:<id> hashes.  Every  *)
(* websocket message runs handleMessage as an async function: it gives up *)
(* control at every `await`, so handlers of different messages (of the     *)
(* same or of different connections) interleave at those points.  One      *)
(* action of the model is one awaited store/adapter command together with  *)
(* the synchronous code that follows it up to the next await.  Commands    *)
(* issued together in one Promise.all travel over the single redis         *)
(* connection back to back and are one action.                             *)
(***************************************************************************)
EXTENDS Integers, Sequences, FiniteSets, TLC

\* ------------------------------------------------------------------ bounds
MaxCmds == 3
MaxOverlapCmds == 4
MaxTime == 2
MaxSweepHours == 3

Conns == {"a", "b"}
Tasks == {1, 2}
Videos == {"v1", "v2"}
Passwords == {"p"}
WrongPasswords == {"q"}
SeekTimes == {-1, 5}
\* Math.random() returns a value in [0,1); the samples are num/den pairs
RandomSamples == {<<0, 2>>, <<1, 2>>}
\* what youtubeSr.getPlaylist may return (a playlist may list a video twice)
Playlists == {<< >>, <<"v1", "v2">>, <<"v1", "v1">>}
\* the server processes that share the store
Instances == {1, 2}
\* volume is a JS number: the model counts it in steps of 1/VolumeUnit, so that a
\* number that is not an integer (50.5) is a value too
VolumeUnit == 2
Volumes == {-5 * VolumeUnit, 50 * VolumeUnit + 1, 250 * VolumeUnit}

\* ------------------------------------------------------------ pure helpers
isNullish(value) == value = "none"

generateRandomNumber(digits, rnd) ==
    LET min == 10 ^ (digits - 1)
        max == 9 * (10 ^ (digits - 1))
    IN  min + ((rnd[1] * (max - min + 1)) \div rnd[2])

RoomIdSpace == {ToString(generateRandomNumber(6, rnd)) : rnd \in RandomSamples}

\* Bun.password.hash / verify (bcrypt): a one-way image of the password
bcryptHash(password) ==
    CASE password = "p" -> "$2b$04$p"
      [] password = "q" -> "$2b$04$q"
      [] OTHER -> "$2b$04$"

bcryptVerify(password, hash) == hash = bcryptHash(password)

RECURSIVE filterOut(_, _)
filterOut(s, x) ==
    IF s = << >> THEN << >>
    ELSE IF Head(s) = x THEN filterOut(Tail(s), x)
         ELSE << Head(s) >> \o filterOut(Tail(s), x)

cleanUpRoomField_asIs(room) == room

\* const { clients, ...cleanedRoom } = room
cleanUpRoomField(room) ==
    [f \in (DOMAIN room) \ {"clients"} |-> room[f]]

includes(s, x) == \E i \in 1..Len(s) : s[i] = x

NoRoom ==
    [id |-> "none", password |-> "none", clients |-> << >>, videoQueue |-> << >>,
     historyQueue |-> << >>, volume |-> 0, playingNow |-> "none", lastActivity |-> 0,
     creatorId |-> "none", isPlaying |-> FALSE, currentTime |-> 0]

NoArg ==
    [roomId |-> "none", password |-> "none", video |-> "none", time |-> 0, volume |-> 0,
     id |-> "none", requiresAck |-> FALSE]

IdleTask ==
    [pc |-> "idle", ws |-> "none", cmd |-> "none", arg |-> NoArg, roomId |-> "none",
     leaveId |-> "none", room |-> NoRoom, candidates |-> << >>, i |-> 0,
     embeddableVideos |-> << >>, validClients |-> << >>, err |-> "none",
     retries |-> 0, result |-> "none", roomKeys |-> {}, clientKeys |-> {},
     session |-> [txn |-> "none", rooms |-> << >>, clients |-> << >>],
     wrote |-> FALSE, sent |-> << >>, seq |-> 0, start |-> 0, cacheNow |-> 0, reason |-> "Room closed by creator"]

Msg(type, to, arg) == [type |-> type, to |-> to, arg |-> arg]

\* --------------------------------------------------------------- the state
VARIABLES
    rooms,          \* redis: room:<id> -> Room, for the ids that have a record
    clientRoom,     \* redis: client:<id> hash, field roomId ("none" when absent)
    wsConnections,  \* the process-local connection table
    subs,           \* ws.subscribe topics: set of <<connection, roomId>>
    tasks,          \* the handleMessage invocations in progress
    ncmds,          \* number of commands received so far
    now,            \* Date.now()
    IS_ENCRYPTED_PASSWORD,  \* process.env.IS_ENCRYPTED_PASSWORD === 'true'
    instanceOf,     \* the server process each connection is connected to
    roomCache,      \* per process: roomId -> [room, timestamp] (getRoomWithCache)
    closed,         \* the connections whose close handler has been called
    embedCache,     \* redis: youtube_embed_status:<videoId> ("none" when absent)
    mongoRooms,     \* MongoDB: the Room documents, by room id
    mongoClients    \* MongoDB: roomId of the Client documents ("none" when absent)

vars == <<rooms, clientRoom, wsConnections, subs, tasks, ncmds, now,
          IS_ENCRYPTED_PASSWORD, instanceOf,
                   roomCache, closed, embedCache, mongoRooms, mongoClients>>

Init ==
    /\ rooms = << >>
    /\ clientRoom = [c \in Conns |-> "none"]
    /\ wsConnections = {}
    /\ subs = {}
    /\ tasks = [t \in Tasks |-> IdleTask]
    /\ ncmds = 0
    /\ now = 0
    /\ IS_ENCRYPTED_PASSWORD = FALSE
    /\ instanceOf = [c \in Conns |-> 1]
    /\ roomCache = [i \in Instances |-> << >>]
    /\ closed = {}
    /\ embedCache = [v \in Videos |-> "none"]
    /\ mongoRooms = << >>
    /\ mongoClients = [c \in Conns |-> "none"]

roomExists(roomId) == roomId \in DOMAIN rooms

setRoom(roomId, room) ==
    [k \in (DOMAIN rooms) \cup {roomId} |-> IF k = roomId THEN room ELSE rooms[k]]

delRoom(roomId) == [k \in (DOMAIN rooms) \ {roomId} |-> rooms[k]]

Subscribers(roomId) == {c \in Conns : <<c, roomId>> \in subs}

\* the connection table of one server process
wsConnectionsOf(instance) == {c \in wsConnections : instanceOf[c] = instance}

\* the server process a handler runs in: the one its connection is connected to
instanceOfTask(T) == IF T.ws \in Conns THEN instanceOf[T.ws] ELSE 1

\* every failure reported as the generic error
Throw_generic(t, code) ==
    [tasks[t] EXCEPT !.pc = "done", !.err = code, !.room = NoRoom,
        !.sent = Append(@, Msg("error", {tasks[t].ws}, "error"))]

\* handleError after a throw: RoomError -> errorWithCode, anything else -> error;
\* the catch of the close handler only logs; the catch in the loop of
\* cleanupInactiveRooms logs and goes on with the next key
Throw(t, code) ==
    IF tasks[t].cmd = "cleanup"
    THEN [tasks[t] EXCEPT !.pc = "swGet", !.candidates = Tail(@), !.room = NoRoom]
    ELSE [tasks[t] EXCEPT !.pc = "done", !.err = code, !.room = NoRoom,
            !.sent = IF tasks[t].cmd = "close" THEN @
                     ELSE Append(@, Msg(IF code = "error" THEN "error"
                                        ELSE "errorWithCode", {tasks[t].ws}, code))]

\* ------------------------------------------------------------- connections
Open(c) ==
    /\ c \notin wsConnections
    /\ c \notin closed
    /\ wsConnections' = wsConnections \cup {c}
    /\ UNCHANGED <<rooms, clientRoom, subs, tasks, ncmds, now, IS_ENCRYPTED_PASSWORD, instanceOf,
                   roomCache, closed,
                   embedCache, mongoRooms, mongoClients>>

\* a connection is opened on one of the server processes
Connect(c, instance) ==
    /\ c \notin wsConnections
    /\ c \notin closed
    /\ wsConnections' = wsConnections \cup {c}
    /\ instanceOf' = [instanceOf EXCEPT ![c] = instance]
    /\ UNCHANGED <<rooms, clientRoom, subs, tasks, ncmds, now, IS_ENCRYPTED_PASSWORD,
                   roomCache, closed,
                   embedCache, mongoRooms, mongoClients>>

\* ----------------------------------------------------------- handleMessage
\* the first await of each command
firstPc(cmd) ==
    CASE cmd = "ping" -> "done"
      [] cmd = "createRoom" -> "crExists"
      [] cmd \in {"joinRoom", "reJoinRoom"} -> "jrValidate"
      [] cmd = "leaveRoom" -> "lcGet"
      [] OTHER -> "vcir"

\* if (message?.requiresAck && message.id) sendToClient(ws, {type: 'ack', messageId});
\* an id that is absent or the empty string is falsy; case 'ping' answers pong
firstSent(c, cmd, arg) ==
    (IF arg.requiresAck /\ arg.id \notin {"none", ""}
     THEN << Msg("ack", {c}, arg.id) >> ELSE << >>)
    \o (IF cmd = "ping" THEN << Msg("pong", {c}, "none") >> ELSE << >>)

handleMessage(t, c, cmd, arg) ==
    /\ c \in wsConnections
    /\ c \notin closed
    /\ tasks[t].pc = "idle"
    /\ \A u \in Tasks : tasks[u].pc = "idle" => t <= u
    /\ tasks' = [tasks EXCEPT ![t] =
            [IdleTask EXCEPT !.pc = firstPc(cmd), !.ws = c, !.cmd = cmd, !.arg = arg,
                             !.seq = ncmds + 1, !.start = now,
                             !.sent = firstSent(c, cmd, arg)]]
    /\ ncmds' = ncmds + 1
    /\ UNCHANGED <<rooms, clientRoom, wsConnections, subs, now, IS_ENCRYPTED_PASSWORD, instanceOf,
                   roomCache, closed,
                   embedCache, mongoRooms, mongoClients>>

\* handleMessage returns: the promise of the handler settles
Return(t) ==
    /\ tasks[t].pc = "done"
    /\ tasks' = [tasks EXCEPT ![t] = IdleTask]
    /\ UNCHANGED <<rooms, clientRoom, wsConnections, subs, ncmds, now,
                   IS_ENCRYPTED_PASSWORD, instanceOf,
                   roomCache, closed,
                   embedCache, mongoRooms, mongoClients>>

\* ws close: await leaveCurrentRoom(ws); wsConnections.delete(ws.id)
Close(t, c) ==
    /\ c \in wsConnections
    /\ c \notin closed
    /\ tasks[t].pc = "idle"
    /\ \A u \in Tasks : tasks[u].pc = "idle" => t <= u
    /\ closed' = closed \cup {c}
    /\ tasks' = [tasks EXCEPT ![t] =
            [IdleTask EXCEPT !.pc = "lcGet", !.ws = c, !.cmd = "close", !.start = now]]
    /\ UNCHANGED <<rooms, clientRoom, wsConnections, subs, ncmds, now,
                   IS_ENCRYPTED_PASSWORD, instanceOf, roomCache,
                   embedCache, mongoRooms, mongoClients>>

\* the wall clock advances by d milliseconds
Tick(d) ==
    /\ now' = now + d
    /\ UNCHANGED <<rooms, clientRoom, wsConnections, subs, tasks, ncmds,
                   IS_ENCRYPTED_PASSWORD, instanceOf, roomCache, closed,
                   embedCache, mongoRooms, mongoClients>>

\* ------------------------------------------------------------- createRoom
newRoom(roomId, wsId, password, lastActivity) ==
    [id |-> roomId, password |-> password,
     clients |-> << wsId >>, videoQueue |-> << >>, historyQueue |-> << >>,
     volume |-> 100 * VolumeUnit, playingNow |-> "none", lastActivity |-> lastActivity,
     creatorId |-> wsId, isPlaying |-> FALSE, currentTime |-> 0]

\* do { roomId = random; roomExists = await roomIdExists(roomId) } while (roomExists)
createRoom_exists(t) ==
    /\ tasks[t].pc = "crExists"
    /\ \E rnd \in RandomSamples :
        LET roomId == ToString(generateRandomNumber(6, rnd))
            password == tasks[t].arg.password
        IN  tasks' = [tasks EXCEPT ![t] =
                IF roomExists(roomId) THEN @
                ELSE IF IS_ENCRYPTED_PASSWORD /\ ~isNullish(password)
                     THEN [@ EXCEPT !.roomId = roomId, !.pc = "crHash"]
                     ELSE [@ EXCEPT !.roomId = roomId, !.pc = "crSet",
                             !.room = newRoom(roomId, tasks[t].ws, password, now)]]
    /\ UNCHANGED <<rooms, clientRoom, wsConnections, subs, ncmds, now,
                   IS_ENCRYPTED_PASSWORD, instanceOf,
                   roomCache, closed,
                   embedCache, mongoRooms, mongoClients>>

\* await Bun.password.hash(password, {algorithm: 'bcrypt', cost: 4})
createRoom_hash(t) ==
    /\ tasks[t].pc = "crHash"
    /\ tasks' = [tasks EXCEPT ![t].pc = "crSet",
                    ![t].room = newRoom(tasks[t].roomId, tasks[t].ws,
                                        bcryptHash(tasks[t].arg.password), now)]
    /\ UNCHANGED <<rooms, clientRoom, wsConnections, subs, ncmds, now,
                   IS_ENCRYPTED_PASSWORD, instanceOf,
                   roomCache, closed,
                   embedCache, mongoRooms, mongoClients>>

\* await redis.set(`room:${roomId}`, JSON.stringify(room)); then joinRoomInternal
createRoom_set(t) ==
    /\ tasks[t].pc = "crSet"
    /\ rooms' = setRoom(tasks[t].roomId, tasks[t].room)
    /\ tasks' = [tasks EXCEPT ![t].pc = "lcGet", ![t].wrote = TRUE]
    /\ UNCHANGED <<clientRoom, wsConnections, subs, ncmds, now, IS_ENCRYPTED_PASSWORD, instanceOf,
                   roomCache, closed,
                   embedCache, mongoRooms, mongoClients>>

\* ---------------------------------------------------------------- joinRoom
\* the guard of the password check, and the check itself
passwordChecked(password, room) == ~isNullish(password) /\ ~isNullish(room.password)

isPasswordValid(password, room, encrypted) ==
    IF encrypted THEN bcryptVerify(password, room.password)
    ELSE password = room.password

\* const room = await validateRoom(roomId, isRejoin); the password check follows
joinRoom_validate(t) ==
    /\ tasks[t].pc = "jrValidate"
    /\ LET T == tasks[t]
           roomId == T.arg.roomId
       IN  tasks' = [tasks EXCEPT ![t] =
             IF ~roomExists(roomId)
             THEN Throw(t, IF T.cmd = "reJoinRoom" THEN "rejoinRoomNotFound"
                           ELSE "roomNotFound")
             ELSE IF ~passwordChecked(T.arg.password, rooms[roomId])
                  THEN [@ EXCEPT !.roomId = roomId, !.pc = "lcGet"]
                  ELSE IF IS_ENCRYPTED_PASSWORD
                       THEN [@ EXCEPT !.roomId = roomId, !.room = rooms[roomId],
                               !.pc = "jrVerify"]
                       ELSE IF isPasswordValid(T.arg.password, rooms[roomId], FALSE)
                            THEN [@ EXCEPT !.roomId = roomId, !.pc = "lcGet"]
                            ELSE Throw(t, "incorrectPassword")]
    /\ UNCHANGED <<rooms, clientRoom, wsConnections, subs, ncmds, now,
                   IS_ENCRYPTED_PASSWORD, instanceOf,
                   roomCache, closed,
                   embedCache, mongoRooms, mongoClients>>

\* await Bun.password.verify(password, room.password)
joinRoom_verify(t) ==
    /\ tasks[t].pc = "jrVerify"
    /\ tasks' = [tasks EXCEPT ![t] =
            IF isPasswordValid(@.arg.password, @.room, TRUE)
            THEN [@ EXCEPT !.pc = "lcGet", !.room = NoRoom]
            ELSE Throw(t, "incorrectPassword")]
    /\ UNCHANGED <<rooms, clientRoom, wsConnections, subs, ncmds, now,
                   IS_ENCRYPTED_PASSWORD, instanceOf,
                   roomCache, closed,
                   embedCache, mongoRooms, mongoClients>>

\* -------------------------------------------------------- leaveCurrentRoom
\* where a handler goes on after leaveCurrentRoom returned
afterLeave(T) ==
    IF T.cmd = "leaveRoom"
    THEN [T EXCEPT !.pc = "done", !.sent = Append(@, Msg("leftRoom", {T.ws}, "none"))]
    ELSE IF T.cmd = "close" THEN [T EXCEPT !.pc = "done"]
    ELSE [T EXCEPT !.pc = "jiRoom"]

\* the connection table after leaveCurrentRoom returned: the close handler goes on
\* with wsConnections.delete(ws.id)
afterLeaveConnections(T) ==
    IF T.cmd = "close" THEN wsConnections \ {T.ws} ELSE wsConnections

\* const clientInfo = await getClientInfo(ws.id); ws.unsubscribe(clientInfo.roomId)
leaveCurrentRoom_getClientInfo(t) ==
    /\ tasks[t].pc = "lcGet"
    /\ LET T == tasks[t]
           roomId == clientRoom[T.ws]
       IN  IF roomId # "none"
           THEN /\ subs' = subs \ {<<T.ws, roomId>>}
                /\ tasks' = [tasks EXCEPT ![t].leaveId = roomId, ![t].pc = "lcRoom"]
           ELSE /\ subs' = subs
                /\ tasks' = [tasks EXCEPT ![t] = afterLeave(T)]
    /\ wsConnections' =
          IF clientRoom[tasks[t].ws] # "none" THEN wsConnections
          ELSE afterLeaveConnections(tasks[t])
    /\ UNCHANGED <<rooms, clientRoom, ncmds, now, IS_ENCRYPTED_PASSWORD, instanceOf,
                   roomCache, closed,
                   embedCache, mongoRooms, mongoClients>>

\* const room = await validateRoom(clientInfo.roomId); room.clients = filter(...)
leaveCurrentRoom_validateRoom(t) ==
    /\ tasks[t].pc = "lcRoom"
    /\ LET T == tasks[t]
       IN  tasks' = [tasks EXCEPT ![t] =
             IF ~roomExists(T.leaveId) THEN Throw(t, "roomNotFound")
             ELSE [@ EXCEPT !.pc = "lcSet",
                     !.room = [rooms[T.leaveId] EXCEPT
                                  !.clients = filterOut(@, T.ws)]]]
    /\ UNCHANGED <<rooms, clientRoom, wsConnections, subs, ncmds, now,
                   IS_ENCRYPTED_PASSWORD, instanceOf,
                   roomCache, closed,
                   embedCache, mongoRooms, mongoClients>>

\* await redis.set(`room:${clientInfo.roomId}`, JSON.stringify(room))
leaveCurrentRoom_set(t) ==
    /\ tasks[t].pc = "lcSet"
    /\ rooms' = setRoom(tasks[t].leaveId, tasks[t].room)
    /\ tasks' = [tasks EXCEPT ![t].pc = "lcHdel", ![t].wrote = TRUE, ![t].room = NoRoom]
    /\ UNCHANGED <<clientRoom, wsConnections, subs, ncmds, now, IS_ENCRYPTED_PASSWORD, instanceOf,
                   roomCache, closed,
                   embedCache, mongoRooms, mongoClients>>

\* await redis.hdel(`client:${ws.id}`, 'roomId')
leaveCurrentRoom_hdel(t) ==
    /\ tasks[t].pc = "lcHdel"
    /\ clientRoom' = [clientRoom EXCEPT ![tasks[t].ws] = "none"]
    /\ tasks' = [tasks EXCEPT ![t].pc = "lcAct", ![t].wrote = TRUE]
    /\ UNCHANGED <<rooms, wsConnections, subs, ncmds, now, IS_ENCRYPTED_PASSWORD, instanceOf,
                   roomCache, closed,
                   embedCache, mongoRooms, mongoClients>>

\* the room written back as it was read
updateRoomActivity_asRead(room, time) == room

\* updateRoomActivity: const room = await validateRoom(roomId); room.lastActivity = now
updateRoomActivity(room, time) == [room EXCEPT !.lastActivity = time]

leaveCurrentRoom_activityGet(t) ==
    /\ tasks[t].pc = "lcAct"
    /\ LET T == tasks[t]
       IN  tasks' = [tasks EXCEPT ![t] =
             IF ~roomExists(T.leaveId) THEN Throw(t, "roomNotFound")
             ELSE [@ EXCEPT !.pc = "lcActSet",
                     !.room = updateRoomActivity(rooms[T.leaveId], now)]]
    /\ UNCHANGED <<rooms, clientRoom, wsConnections, subs, ncmds, now,
                   IS_ENCRYPTED_PASSWORD, instanceOf,
                   roomCache, closed,
                   embedCache, mongoRooms, mongoClients>>

leaveCurrentRoom_activitySet(t) ==
    /\ tasks[t].pc = "lcActSet"
    /\ rooms' = setRoom(tasks[t].leaveId, tasks[t].room)
    /\ tasks' = [tasks EXCEPT ![t] = afterLeave([@ EXCEPT !.wrote = TRUE, !.room = NoRoom])]
    /\ wsConnections' = afterLeaveConnections(tasks[t])
    /\ UNCHANGED <<clientRoom, subs, ncmds, now, IS_ENCRYPTED_PASSWORD, instanceOf,
                   roomCache, closed,
                   embedCache, mongoRooms, mongoClients>>

\* -------------------------------------------------------- joinRoomInternal
\* ws.subscribe(roomId); Promise.all([hset, sendToClient(roomJoined)]): the reply
\* is sent while the hset is still on its way
joinRoomInternal_subscribe(T, room) ==
    [T EXCEPT !.pc = "jiHset", !.room = room,
        !.sent = Append(@, Msg("roomJoined", {T.ws}, cleanUpRoomField(room)))]

\* const room = await validateRoom(roomId); push ws.id when it is not included
joinRoomInternal_validateRoom(t) ==
    /\ tasks[t].pc = "jiRoom"
    /\ LET T == tasks[t]
       IN  IF ~roomExists(T.roomId)
           THEN /\ tasks' = [tasks EXCEPT ![t] = Throw(t, "roomNotFound")]
                /\ subs' = subs
           ELSE IF ~includes(rooms[T.roomId].clients, T.ws)
                THEN /\ tasks' = [tasks EXCEPT ![t].pc = "jiSet",
                            ![t].room = [rooms[T.roomId] EXCEPT
                                            !.clients = Append(@, T.ws)]]
                     /\ subs' = subs
                ELSE /\ tasks' = [tasks EXCEPT ![t] =
                            joinRoomInternal_subscribe(T, rooms[T.roomId])]
                     /\ subs' = subs \cup {<<T.ws, T.roomId>>}
    /\ UNCHANGED <<rooms, clientRoom, wsConnections, ncmds, now, IS_ENCRYPTED_PASSWORD, instanceOf,
                   roomCache, closed,
                   embedCache, mongoRooms, mongoClients>>

\* await redis.set(`room:${roomId}`, JSON.stringify(room)); ws.subscribe(roomId)
joinRoomInternal_set(t) ==
    /\ tasks[t].pc = "jiSet"
    /\ LET T == tasks[t]
       IN  /\ rooms' = setRoom(T.roomId, T.room)
           /\ tasks' = [tasks EXCEPT ![t] =
                  joinRoomInternal_subscribe([T EXCEPT !.wrote = TRUE], T.room)]
           /\ subs' = subs \cup {<<T.ws, T.roomId>>}
    /\ UNCHANGED <<clientRoom, wsConnections, ncmds, now, IS_ENCRYPTED_PASSWORD, instanceOf,
                   roomCache, closed,
                   embedCache, mongoRooms, mongoClients>>

\* redis.hset(`client:${ws.id}`, 'roomId', roomId) takes effect; createRoom then
\* sends roomCreated, joinRoom goes on to updateRoomActivity
joinRoomInternal_hset(t) ==
    /\ tasks[t].pc = "jiHset"
    /\ LET T == tasks[t]
       IN  /\ clientRoom' = [clientRoom EXCEPT ![T.ws] = T.roomId]
           /\ tasks' = [tasks EXCEPT ![t] =
                  IF T.cmd = "createRoom"
                  THEN [T EXCEPT !.pc = "done", !.wrote = TRUE, !.room = NoRoom,
                          !.sent = Append(@, Msg("roomCreated", {T.ws}, T.roomId))]
                  ELSE [T EXCEPT !.pc = "jrAct", !.wrote = TRUE, !.room = NoRoom]]
    /\ UNCHANGED <<rooms, wsConnections, subs, ncmds, now, IS_ENCRYPTED_PASSWORD, instanceOf,
                   roomCache, closed,
                   embedCache, mongoRooms, mongoClients>>

\* joinRoom: await updateRoomActivity(roomId)
joinRoom_activityGet(t) ==
    /\ tasks[t].pc = "jrAct"
    /\ LET T == tasks[t]
       IN  tasks' = [tasks EXCEPT ![t] =
             IF ~roomExists(T.roomId) THEN Throw(t, "roomNotFound")
             ELSE [@ EXCEPT !.pc = "jrActSet",
                     !.room = updateRoomActivity(rooms[T.roomId], now)]]
    /\ UNCHANGED <<rooms, clientRoom, wsConnections, subs, ncmds, now,
                   IS_ENCRYPTED_PASSWORD, instanceOf,
                   roomCache, closed,
                   embedCache, mongoRooms, mongoClients>>

joinRoom_activitySet(t) ==
    /\ tasks[t].pc = "jrActSet"
    /\ rooms' = setRoom(tasks[t].roomId, tasks[t].room)
    /\ tasks' = [tasks EXCEPT ![t].pc = "done", ![t].wrote = TRUE, ![t].room = NoRoom]
    /\ UNCHANGED <<clientRoom, wsConnections, subs, ncmds, now, IS_ENCRYPTED_PASSWORD, instanceOf,
                   roomCache, closed,
                   embedCache, mongoRooms, mongoClients>>

\* ------------------------------------------------------ commands on a room
\* broadcastToRoom: wsServer.server.publish(roomId, message) reaches the
\* connections of the publishing process subscribed to the topic at that moment
broadcastToRoom(T, type, arg) ==
    [T EXCEPT !.sent = Append(@,
        Msg(type, Subscribers(T.roomId) \cap wsConnectionsOf(instanceOfTask(T)), arg))]

\* Promise.all([redis.set(room), broadcastToRoom(roomId, event)]): the event is
\* published at once, the set is on its way
publishAndSet(T, room, type, arg) ==
    [broadcastToRoom(T, type, arg) EXCEPT !.room = room, !.pc = "write"]

roomUpdate(T, room) == publishAndSet(T, room, "roomUpdate", cleanUpRoomField(room))

\* ------------------------------------------------- setVolume / updateRoom
CACHE_TTL == 2000

\* getRoomWithCache: cached && now - cached.timestamp < CACHE_TTL
cacheHit(instance, roomId, time) ==
    /\ roomId \in DOMAIN roomCache[instance]
    /\ time - roomCache[instance][roomId].timestamp < CACHE_TTL

\* roomCache.set(roomId, {room, timestamp})
cacheSet(instance, roomId, room, timestamp) ==
    [roomCache EXCEPT ![instance] =
        [k \in (DOMAIN @) \cup {roomId} |->
            IF k = roomId THEN [room |-> room, timestamp |-> timestamp] ELSE @[k]]]

\* the updater alone, without the stamp of updateRoom
setVolume_unstamped(room, volume, time) ==
    LET max == IF volume > 0 THEN volume ELSE 0
        min == IF max < 100 * VolumeUnit THEN max ELSE 100 * VolumeUnit
    IN  [room EXCEPT !.volume = min]

\* the updater of setVolume and the stamp of updateRoom
setVolume(room, volume, time) ==
    LET max == IF volume > 0 THEN volume ELSE 0
        min == IF max < 100 * VolumeUnit THEN max ELSE 100 * VolumeUnit
    IN  [room EXCEPT !.volume = min, !.lastActivity = time]

\* updateRoom once it has the room: updater(room); room.lastActivity = Date.now();
\* Promise.all([redis.set, broadcastToRoom roomUpdate])
updateRoom(T, room) ==
    [roomUpdate(T, setVolume(room, T.arg.volume, now)) EXCEPT !.pc = "volSet"]

\* getRoomWithCache after a miss: const room = await validateRoom(roomId);
\* roomCache.set(roomId, {room, timestamp: now}); then updateRoom goes on with the
\* object it got, which is the one the cache holds
setVolume_validateRoom(t) ==
    /\ tasks[t].pc = "cacheGet"
    /\ LET T == tasks[t]
       IN  IF ~roomExists(T.roomId)
           THEN /\ tasks' = [tasks EXCEPT ![t] = Throw(t, "roomNotFound")]
                /\ roomCache' = roomCache
           ELSE /\ tasks' = [tasks EXCEPT ![t] = updateRoom(T, rooms[T.roomId])]
                /\ roomCache' = cacheSet(instanceOfTask(T), T.roomId, tasks'[t].room,
                                         T.cacheNow)
    /\ UNCHANGED <<rooms, clientRoom, wsConnections, subs, ncmds, now,
                   IS_ENCRYPTED_PASSWORD, instanceOf, closed,
                   embedCache, mongoRooms, mongoClients>>

\* the redis.set of updateRoom takes effect; roomCache.set(roomId, {room,
\* timestamp: Date.now()}); setVolume then broadcasts volumeChanged with the volume
\* of getRoomWithCache(roomId), which is the entry just set
setVolume_set(t) ==
    /\ tasks[t].pc = "volSet"
    /\ LET T == tasks[t]
       IN  /\ rooms' = setRoom(T.roomId, T.room)
           /\ roomCache' = cacheSet(instanceOfTask(T), T.roomId, T.room, now)
           /\ tasks' = [tasks EXCEPT ![t] =
                  [broadcastToRoom(T, "volumeChanged", T.room.volume)
                      EXCEPT !.pc = "done", !.wrote = TRUE, !.room = NoRoom]]
    /\ UNCHANGED <<clientRoom, wsConnections, subs, ncmds, now, IS_ENCRYPTED_PASSWORD,
                   instanceOf, closed,
                   embedCache, mongoRooms, mongoClients>>

\* const roomId = await validateClientInRoom(ws)
validateClientInRoom(t) ==
    /\ tasks[t].pc = "vcir"
    /\ LET T == tasks[t]
           roomId == clientRoom[T.ws]
       IN  tasks' = [tasks EXCEPT ![t] =
             IF roomId = "none" THEN Throw(t, "notInRoom")
             ELSE IF T.cmd = "sendMessage"
                  THEN [broadcastToRoom([T EXCEPT !.roomId = roomId], "message", T.ws)
                            EXCEPT !.pc = "done"]
                  ELSE IF T.cmd = "setVolume"
                       THEN IF cacheHit(instanceOfTask(T), roomId, now)
                            THEN updateRoom([T EXCEPT !.roomId = roomId],
                                            roomCache[instanceOfTask(T)][roomId].room)
                            ELSE [T EXCEPT !.roomId = roomId, !.cacheNow = now,
                                           !.pc = "cacheGet"]
                       ELSE [T EXCEPT !.roomId = roomId, !.pc = "vroom"]]
    /\ roomCache' =
          LET T == tasks[t]
              roomId == clientRoom[T.ws]
          IN  IF roomId # "none" /\ T.cmd = "setVolume"
                    /\ cacheHit(instanceOfTask(T), roomId, now)
              THEN cacheSet(instanceOfTask(T), roomId, tasks'[t].room,
                            roomCache[instanceOfTask(T)][roomId].timestamp)
              ELSE roomCache
    /\ UNCHANGED <<rooms, clientRoom, wsConnections, subs, ncmds, now,
                   IS_ENCRYPTED_PASSWORD, instanceOf, closed,
                   embedCache, mongoRooms, mongoClients>>

\* --------------------------------------------------------------- closeRoom
\* the check left out: every member passes
isCreator_anyMember(room, wsId) == TRUE

isCreator(room, wsId) == room.creatorId = wsId

\* handleCloseRoom: const room = await validateRoom(roomId); the creator check
handleCloseRoom(t) ==
    /\ tasks[t].pc = "vroom"
    /\ tasks[t].cmd = "closeRoom"
    /\ LET T == tasks[t]
       IN  tasks' = [tasks EXCEPT ![t] =
             IF ~roomExists(T.roomId) THEN Throw(t, "roomNotFound")
             ELSE IF ~isCreator(rooms[T.roomId], T.ws)
                  THEN [Throw(t, "notCreatorOfRoom") EXCEPT !.room = rooms[T.roomId]]
                  ELSE [T EXCEPT !.pc = "closeRead"]]
    /\ UNCHANGED <<rooms, clientRoom, wsConnections, subs, ncmds, now,
                   IS_ENCRYPTED_PASSWORD, instanceOf,
                   roomCache, closed,
                   embedCache, mongoRooms, mongoClients>>

\* the members closeRoom finds in the connection table: unsubscribed and notified
closeRoomNotified(room, connections) ==
    {room.clients[i] : i \in 1..Len(room.clients)} \cap connections

\* only the record of the creator is cleared
closeRoomUnbound_creatorOnly(room) == {room.creatorId}

\* the members whose client record loses its roomId
closeRoomUnbound(room) == {room.clients[i] : i \in 1..Len(room.clients)}

\* closeRoom: const room = await validateRoom(roomId); the loop over room.clients
closeRoom_validateRoom(t) ==
    /\ tasks[t].pc = "closeRead"
    /\ LET T == tasks[t]
       IN  IF ~roomExists(T.roomId)
           THEN /\ tasks' = [tasks EXCEPT ![t] = Throw(t, "roomNotFound")]
                /\ subs' = subs
           ELSE LET room == rooms[T.roomId]
                    notified == closeRoomNotified(room,
                                                  wsConnectionsOf(instanceOfTask(T)))
                IN  /\ subs' = subs \ {<<c, T.roomId>> : c \in notified}
                    /\ tasks' = [tasks EXCEPT ![t] =
                          [T EXCEPT !.pc = "closeDel", !.room = room,
                             !.sent = IF notified = {} THEN @
                                      ELSE Append(@, Msg("roomClosed", notified,
                                                         T.reason))]]
    /\ UNCHANGED <<rooms, clientRoom, wsConnections, ncmds, now, IS_ENCRYPTED_PASSWORD, instanceOf,
                   roomCache, closed,
                   embedCache, mongoRooms, mongoClients>>

\* await Promise.all([redis.del(room), ...room.clients.map(hdel client roomId)])
closeRoom_del(t) ==
    /\ tasks[t].pc = "closeDel"
    /\ LET T == tasks[t]
       IN  /\ rooms' = delRoom(T.roomId)
           /\ clientRoom' = [c \in Conns |->
                  IF c \in closeRoomUnbound(T.room) THEN "none" ELSE clientRoom[c]]
           /\ tasks' = [tasks EXCEPT ![t] =
                  IF T.cmd = "cleanup"
                  THEN [T EXCEPT !.pc = "swGet", !.candidates = Tail(@),
                                 !.wrote = TRUE, !.room = NoRoom]
                  ELSE [T EXCEPT !.pc = "done", !.wrote = TRUE]]
    /\ UNCHANGED <<wsConnections, subs, ncmds, now, IS_ENCRYPTED_PASSWORD, instanceOf,
                   roomCache, closed,
                   embedCache, mongoRooms, mongoClients>>

\* ------------------------------------------------ the lifecycle worker
INACTIVE_TIMEOUT == 300 * 1000
MIN_VIDEO_TIMEOUT_HOURS == 2
VIDEO_DURATION_MULTIPLIER == 5

\* playingNow.duration of the videos, in seconds
duration(video) == IF video = "v1" THEN 120 ELSE 2000

\* the timeout standard for a room that is not playing
timeoutMs_standard(room) == INACTIVE_TIMEOUT

\* let timeoutMs = INACTIVE_TIMEOUT; if (room.playingNow && room.isPlaying) ...
timeoutMs(room) ==
    IF room.playingNow # "none" /\ room.isPlaying
    THEN LET videoDurationMs == duration(room.playingNow) * 1000
             minTimeoutMs == MIN_VIDEO_TIMEOUT_HOURS * 60 * 60 * 1000
         IN  IF minTimeoutMs > videoDurationMs * VIDEO_DURATION_MULTIPLIER
             THEN minTimeoutMs ELSE videoDurationMs * VIDEO_DURATION_MULTIPLIER
    ELSE INACTIVE_TIMEOUT

\* room.lastActivity && now - room.lastActivity > timeoutMs
isInactive(room, time) ==
    room.lastActivity # 0 /\ time - room.lastActivity > timeoutMs(room)

\* !room.clients || room.clients.length === 0
isEmpty(room) == Len(room.clients) = 0

\* the keys of a KEYS reply, in some order
RECURSIVE Orders(_)
Orders(S) ==
    IF S = {} THEN {<< >>}
    ELSE UNION {{<< x >> \o rest : rest \in Orders(S \ {x})} : x \in S}

\* the worker takes a cleanup job: cleanupInactiveRooms issues KEYS room:*
cleanup(t) ==
    /\ tasks[t].pc = "idle"
    /\ \A u \in Tasks : tasks[u].pc = "idle" => t <= u
    /\ tasks' = [tasks EXCEPT ![t] = [IdleTask EXCEPT !.pc = "swKeys", !.cmd = "cleanup"]]
    /\ UNCHANGED <<rooms, clientRoom, wsConnections, subs, ncmds, now,
                   IS_ENCRYPTED_PASSWORD, instanceOf, roomCache, closed,
                   embedCache, mongoRooms, mongoClients>>

\* const keys = await connection.keys('room:*'); const now = Date.now()
cleanupInactiveRooms_keys(t) ==
    /\ tasks[t].pc = "swKeys"
    /\ \E keys \in Orders(DOMAIN rooms) :
          tasks' = [tasks EXCEPT ![t].pc = "swGet", ![t].candidates = keys,
                                 ![t].start = now]
    /\ UNCHANGED <<rooms, clientRoom, wsConnections, subs, ncmds, now,
                   IS_ENCRYPTED_PASSWORD, instanceOf, roomCache, closed,
                   embedCache, mongoRooms, mongoClients>>

\* const roomData = await connection.get(key); the decision on the room; after
\* the last key cleanupOrphanedClients issues KEYS client:*
cleanupInactiveRooms_get(t) ==
    /\ tasks[t].pc = "swGet"
    /\ LET T == tasks[t]
       IN  tasks' = [tasks EXCEPT ![t] =
             IF T.candidates = << >> THEN [T EXCEPT !.pc = "ocKeys"]
             ELSE IF ~roomExists(Head(T.candidates))
                  THEN [T EXCEPT !.candidates = Tail(@)]
                  ELSE LET room == rooms[Head(T.candidates)]
                       IN  IF isInactive(room, T.start) \/ isEmpty(room)
                           THEN [T EXCEPT !.pc = "closeRead", !.roomId = room.id,
                                   !.reason =
                                      IF isInactive(room, T.start)
                                      THEN "Room has been closed due to inactivity"
                                      ELSE "Room has been closed because it had no clients"]
                           ELSE [T EXCEPT !.candidates = Tail(@)]]
    /\ UNCHANGED <<rooms, clientRoom, wsConnections, subs, ncmds, now,
                   IS_ENCRYPTED_PASSWORD, instanceOf, roomCache, closed,
                   embedCache, mongoRooms, mongoClients>>

\* cleanupOrphanedClients: const clientKeys = await connection.keys('client:*')
\* (a client hash without field has no key)
cleanupOrphanedClients_keys(t) ==
    /\ tasks[t].pc = "ocKeys"
    /\ \E keys \in Orders({c \in Conns : clientRoom[c] # "none"}) :
          tasks' = [tasks EXCEPT ![t].pc = "ocGet", ![t].candidates = keys]
    /\ UNCHANGED <<rooms, clientRoom, wsConnections, subs, ncmds, now,
                   IS_ENCRYPTED_PASSWORD, instanceOf, roomCache, closed,
                   embedCache, mongoRooms, mongoClients>>

\* const clientData = await connection.hgetall(key); lastSeen is never written,
\* so a client without roomId is skipped
cleanupOrphanedClients_hgetall(t) ==
    /\ tasks[t].pc = "ocGet"
    /\ LET T == tasks[t]
       IN  tasks' = [tasks EXCEPT ![t] =
             IF T.candidates = << >> THEN [T EXCEPT !.pc = "done"]
             ELSE IF clientRoom[Head(T.candidates)] = "none"
                  THEN [T EXCEPT !.candidates = Tail(@)]
                  ELSE [T EXCEPT !.pc = "ocExists",
                                 !.leaveId = clientRoom[Head(T.candidates)]]]
    /\ UNCHANGED <<rooms, clientRoom, wsConnections, subs, ncmds, now,
                   IS_ENCRYPTED_PASSWORD, instanceOf, roomCache, closed,
                   embedCache, mongoRooms, mongoClients>>

\* const roomExists = await connection.exists(`room:${clientData.roomId}`)
cleanupOrphanedClients_exists(t) ==
    /\ tasks[t].pc = "ocExists"
    /\ tasks' = [tasks EXCEPT ![t] =
          IF roomExists(@.leaveId)
          THEN [@ EXCEPT !.pc = "ocGet", !.candidates = Tail(@), !.leaveId = "none"]
          ELSE [@ EXCEPT !.pc = "ocDel", !.leaveId = "none"]]
    /\ UNCHANGED <<rooms, clientRoom, wsConnections, subs, ncmds, now,
                   IS_ENCRYPTED_PASSWORD, instanceOf, roomCache, closed,
                   embedCache, mongoRooms, mongoClients>>

\* await connection.del(key)
cleanupOrphanedClients_del(t) ==
    /\ tasks[t].pc = "ocDel"
    /\ clientRoom' = [clientRoom EXCEPT ![Head(tasks[t].candidates)] = "none"]
    /\ tasks' = [tasks EXCEPT ![t].pc = "ocGet", ![t].candidates = Tail(@),
                               ![t].wrote = TRUE]
    /\ UNCHANGED <<rooms, wsConnections, subs, ncmds, now, IS_ENCRYPTED_PASSWORD,
                   instanceOf, roomCache, closed,
                   embedCache, mongoRooms, mongoClients>>

\* ------------------------------------------------- validateDataIntegrity
\* the worker takes a validate-integrity job: const clientKeys = await
\* redis.keys('client:*') (a client hash without field has no key)
validateDataIntegrity_keys(t) ==
    /\ tasks[t].pc = "idle"
    /\ \A u \in Tasks : tasks[u].pc = "idle" => t <= u
    /\ \E keys \in Orders({c \in Conns : clientRoom[c] # "none"}) :
          tasks' = [tasks EXCEPT ![t] =
              [IdleTask EXCEPT !.pc = "viGet", !.cmd = "validate", !.candidates = keys]]
    /\ UNCHANGED <<rooms, clientRoom, wsConnections, subs, ncmds, now,
                   IS_ENCRYPTED_PASSWORD, instanceOf, roomCache, closed,
                   embedCache, mongoRooms, mongoClients>>

\* const clientData = await redis.hgetall(key); after the last key the pass
\* issues KEYS room:*
validateDataIntegrity_hgetall(t) ==
    /\ tasks[t].pc = "viGet"
    /\ LET T == tasks[t]
       IN  tasks' = [tasks EXCEPT ![t] =
             IF T.candidates = << >> THEN [T EXCEPT !.pc = "viRoomKeys"]
             ELSE IF clientRoom[Head(T.candidates)] = "none"
                  THEN [T EXCEPT !.candidates = Tail(@)]
                  ELSE [T EXCEPT !.pc = "viExists",
                                 !.leaveId = clientRoom[Head(T.candidates)]]]
    /\ UNCHANGED <<rooms, clientRoom, wsConnections, subs, ncmds, now,
                   IS_ENCRYPTED_PASSWORD, instanceOf, roomCache, closed,
                   embedCache, mongoRooms, mongoClients>>

\* const roomExists = await redis.exists(`room:${clientData.roomId}`)
validateDataIntegrity_exists(t) ==
    /\ tasks[t].pc = "viExists"
    /\ tasks' = [tasks EXCEPT ![t] =
          IF roomExists(@.leaveId)
          THEN [@ EXCEPT !.pc = "viGet", !.candidates = Tail(@), !.leaveId = "none"]
          ELSE [@ EXCEPT !.pc = "viDel", !.leaveId = "none"]]
    /\ UNCHANGED <<rooms, clientRoom, wsConnections, subs, ncmds, now,
                   IS_ENCRYPTED_PASSWORD, instanceOf, roomCache, closed,
                   embedCache, mongoRooms, mongoClients>>

\* await redis.del(key)
validateDataIntegrity_del(t) ==
    /\ tasks[t].pc = "viDel"
    /\ clientRoom' = [clientRoom EXCEPT ![Head(tasks[t].candidates)] = "none"]
    /\ tasks' = [tasks EXCEPT ![t].pc = "viGet", ![t].candidates = Tail(@),
                               ![t].wrote = TRUE]
    /\ UNCHANGED <<rooms, wsConnections, subs, ncmds, now, IS_ENCRYPTED_PASSWORD,
                   instanceOf, roomCache, closed,
                   embedCache, mongoRooms, mongoClients>>

\* const roomKeys = await redis.keys('room:*')
validateDataIntegrity_roomKeys(t) ==
    /\ tasks[t].pc = "viRoomKeys"
    /\ \E keys \in Orders(DOMAIN rooms) :
          tasks' = [tasks EXCEPT ![t].pc = "viRoomGet", ![t].candidates = keys]
    /\ UNCHANGED <<rooms, clientRoom, wsConnections, subs, ncmds, now,
                   IS_ENCRYPTED_PASSWORD, instanceOf, roomCache, closed,
                   embedCache, mongoRooms, mongoClients>>

\* the end of the loop over room.clients: the room is written back when a client
\* was dropped, then the next key is read
validatedRoom(T, validClients) ==
    IF T.i < Len(T.room.clients)
    THEN [T EXCEPT !.i = @ + 1, !.validClients = validClients]
    ELSE IF Len(validClients) # Len(T.room.clients)
         THEN [T EXCEPT !.pc = "viSet", !.i = 0, !.validClients = << >>,
                        !.room = [@ EXCEPT !.clients = validClients]]
         ELSE [T EXCEPT !.pc = "viRoomGet", !.i = 0, !.validClients = << >>,
                        !.candidates = Tail(@), !.room = NoRoom]

\* const roomData = await redis.get(key); const validClients = []
validateDataIntegrity_get(t) ==
    /\ tasks[t].pc = "viRoomGet"
    /\ LET T == tasks[t]
       IN  tasks' = [tasks EXCEPT ![t] =
             IF T.candidates = << >> THEN [T EXCEPT !.pc = "done"]
             ELSE IF ~roomExists(Head(T.candidates))
                  THEN [T EXCEPT !.candidates = Tail(@)]
                  ELSE LET room == rooms[Head(T.candidates)]
                       IN  IF room.clients = << >>
                           THEN [T EXCEPT !.candidates = Tail(@)]
                           ELSE [T EXCEPT !.pc = "viClient", !.room = room,
                                          !.i = 1, !.validClients = << >>]]
    /\ UNCHANGED <<rooms, clientRoom, wsConnections, subs, ncmds, now,
                   IS_ENCRYPTED_PASSWORD, instanceOf, roomCache, closed,
                   embedCache, mongoRooms, mongoClients>>

\* const clientExists = await redis.exists(`client:${clientId}`)
validateDataIntegrity_clientExists(t) ==
    /\ tasks[t].pc = "viClient"
    /\ LET T == tasks[t]
           clientId == T.room.clients[T.i]
       IN  tasks' = [tasks EXCEPT ![t] =
             validatedRoom(T, IF clientId \in Conns /\ clientRoom[clientId] # "none"
                              THEN Append(T.validClients, clientId)
                              ELSE T.validClients)]
    /\ UNCHANGED <<rooms, clientRoom, wsConnections, subs, ncmds, now,
                   IS_ENCRYPTED_PASSWORD, instanceOf, roomCache, closed,
                   embedCache, mongoRooms, mongoClients>>

\* room.clients = validClients; await redis.set(key, JSON.stringify(room))
validateDataIntegrity_set(t) ==
    /\ tasks[t].pc = "viSet"
    /\ rooms' = setRoom(Head(tasks[t].candidates), tasks[t].room)
    /\ tasks' = [tasks EXCEPT ![t].pc = "viRoomGet", ![t].candidates = Tail(@),
                               ![t].wrote = TRUE, ![t].room = NoRoom]
    /\ UNCHANGED <<clientRoom, wsConnections, subs, ncmds, now, IS_ENCRYPTED_PASSWORD,
                   instanceOf, roomCache, closed,
                   embedCache, mongoRooms, mongoClients>>

\* -------------------------------------------------- the room transitions
addVideo(room, video, time) ==
    IF room.playingNow = "none" /\ Len(room.videoQueue) <= 0
    THEN [room EXCEPT !.playingNow = video, !.isPlaying = TRUE, !.currentTime = 0,
            !.lastActivity = time]
    ELSE [room EXCEPT !.videoQueue = Append(@, video), !.lastActivity = time]

\* the playing video put in front of the history as it is
toHistory_keepEarlier(room) ==
    IF room.playingNow # "none" THEN << room.playingNow >> \o room.historyQueue
    ELSE room.historyQueue

toHistory(room) ==
    IF room.playingNow # "none"
    THEN << room.playingNow >> \o filterOut(room.historyQueue, room.playingNow)
    ELSE room.historyQueue

\* the playing video put in front of the history that was read
playVideoNow_asRead(room, video, time) ==
    [room EXCEPT !.historyQueue = toHistory_keepEarlier(room), !.playingNow = video,
        !.videoQueue = filterOut(@, video),
        !.isPlaying = TRUE, !.currentTime = 0, !.lastActivity = time]

playVideoNow(room, video, time) ==
    LET r1 == [room EXCEPT !.historyQueue = filterOut(@, video),
                           !.videoQueue = filterOut(@, video)]
    IN  [r1 EXCEPT !.historyQueue = toHistory(r1), !.playingNow = video,
            !.isPlaying = TRUE, !.currentTime = 0, !.lastActivity = time]

nextVideo(room, time) ==
    LET r1 == [room EXCEPT !.historyQueue = toHistory(room)]
    IN  IF Len(r1.videoQueue) > 0
        THEN [r1 EXCEPT !.playingNow = Head(r1.videoQueue), !.videoQueue = Tail(@),
                !.isPlaying = TRUE, !.currentTime = 0, !.lastActivity = time]
        ELSE [r1 EXCEPT !.playingNow = "none", !.isPlaying = FALSE, !.currentTime = 0,
                !.lastActivity = time]

play(room, time) == [room EXCEPT !.isPlaying = TRUE, !.lastActivity = time]

pause(room, time) == [room EXCEPT !.isPlaying = FALSE, !.lastActivity = time]

seek(room, seekTime, time) ==
    [room EXCEPT !.currentTime = seekTime, !.lastActivity = time]

replay(room, time) ==
    [room EXCEPT !.currentTime = 0, !.isPlaying = TRUE, !.lastActivity = time]

\* the entry moved to the end of the queue
moveVideoToTop_toEnd(room, videoId, time) ==
    [room EXCEPT !.videoQueue = filterOut(@, videoId) \o << videoId >>,
        !.lastActivity = time]

moveVideoToTop(room, videoId, time) ==
    [room EXCEPT !.videoQueue = << videoId >> \o filterOut(@, videoId),
        !.lastActivity = time]

\* every entry drawn from the array independently of the others
shuffleArray_withRepeats(array) ==
    {[i \in 1..Len(array) |-> array[f[i]]] : f \in [1..Len(array) -> 1..Len(array)]}

\* the results shuffleArray can return: the array itself up to length 1, the two
\* entries swapped at length 2, some order of the entries from Array.sort with a
\* random comparator beyond that
shuffleArray(array) ==
    IF Len(array) <= 1 THEN {array}
    ELSE IF Len(array) = 2 THEN {<< array[2], array[1] >>}
    ELSE {[i \in 1..Len(array) |-> array[f[i]]] :
             f \in {g \in [1..Len(array) -> 1..Len(array)] :
                       \A i, j \in 1..Len(array) : i # j => g[i] # g[j]}}

shuffleQueue(room, shuffled, time) ==
    [room EXCEPT !.videoQueue = shuffled, !.lastActivity = time]

clearQueue(room, time) == [room EXCEPT !.videoQueue = << >>, !.lastActivity = time]

clearHistory(room, time) == [room EXCEPT !.historyQueue = << >>, !.lastActivity = time]

\* the head of the queue dropped, whatever its id
removeVideoFromQueue_head(room, videoId, time) ==
    [room EXCEPT !.videoQueue = IF Len(@) > 0 THEN Tail(@) ELSE @,
        !.lastActivity = time]

removeVideoFromQueue(room, videoId, time) ==
    [room EXCEPT !.videoQueue = filterOut(@, videoId), !.lastActivity = time]

addVideoAndMoveToTop(room, video, time) ==
    LET r1 == [room EXCEPT !.videoQueue = filterOut(@, video)]
    IN  IF r1.playingNow = "none" /\ Len(r1.videoQueue) <= 0
        THEN [r1 EXCEPT !.playingNow = video, !.isPlaying = TRUE, !.currentTime = 0,
                !.lastActivity = time]
        ELSE [r1 EXCEPT !.videoQueue = << video >> \o @, !.lastActivity = time]

importPlaylist(room, embeddableVideos, time) ==
    LET r1 == [room EXCEPT !.videoQueue = @ \o embeddableVideos, !.lastActivity = time]
    IN  IF r1.playingNow = "none" /\ Len(r1.videoQueue) > 0
        THEN [r1 EXCEPT !.playingNow = Head(r1.videoQueue), !.videoQueue = Tail(@),
                !.isPlaying = TRUE, !.currentTime = 0]
        ELSE r1

SimpleCommands ==
    {"nextVideo", "videoFinished", "play", "pause", "seek", "replay", "moveToTop",
     "shuffleQueue", "clearQueue", "clearHistory", "removeVideoFromQueue"}

\* the handlers that read the room once, change it and write it back
command_validateRoom(t) ==
    /\ tasks[t].pc = "vroom"
    /\ tasks[t].cmd \in SimpleCommands
    /\ LET T == tasks[t]
           cmd == T.cmd
       IN  IF ~roomExists(T.roomId)
           THEN tasks' = [tasks EXCEPT ![t] = Throw(t, "roomNotFound")]
           ELSE LET room == rooms[T.roomId]
                IN  \E shuffled \in shuffleArray(room.videoQueue) :
                    tasks' = [tasks EXCEPT ![t] =
                      CASE cmd \in {"nextVideo", "videoFinished"} ->
                              roomUpdate(T, nextVideo(room, now))
                        [] cmd = "play" -> publishAndSet(T, play(room, now), "play", "none")
                        [] cmd = "pause" ->
                              publishAndSet(T, pause(room, now), "pause", "none")
                        [] cmd = "seek" ->
                              publishAndSet(T, seek(room, T.arg.time, now),
                                            "currentTimeChanged", T.arg.time)
                        [] cmd = "replay" ->
                              IF room.playingNow = "none" THEN Throw(t, "invalidMessage")
                              ELSE publishAndSet(T, replay(room, now), "replay", "none")
                        [] cmd = "moveToTop" ->
                              IF ~includes(room.videoQueue, T.arg.video)
                              THEN Throw(t, "videoNotFound")
                              ELSE roomUpdate(T, moveVideoToTop(room, T.arg.video, now))
                        [] cmd = "shuffleQueue" ->
                              roomUpdate(T, shuffleQueue(room, shuffled, now))
                        [] cmd = "clearQueue" -> roomUpdate(T, clearQueue(room, now))
                        [] cmd = "clearHistory" -> roomUpdate(T, clearHistory(room, now))
                        [] cmd = "removeVideoFromQueue" ->
                              roomUpdate(T, removeVideoFromQueue(room, T.arg.video, now))]
    /\ UNCHANGED <<rooms, clientRoom, wsConnections, subs, ncmds, now,
                   IS_ENCRYPTED_PASSWORD, instanceOf,
                   roomCache, closed,
                   embedCache, mongoRooms, mongoClients>>

\* the redis.set of the Promise.all takes effect
command_set(t) ==
    /\ tasks[t].pc = "write"
    /\ rooms' = setRoom(tasks[t].roomId, tasks[t].room)
    /\ tasks' = [tasks EXCEPT ![t].pc = "done", ![t].wrote = TRUE, ![t].room = NoRoom]
    /\ UNCHANGED <<clientRoom, wsConnections, subs, ncmds, now, IS_ENCRYPTED_PASSWORD, instanceOf,
                   roomCache, closed,
                   embedCache, mongoRooms, mongoClients>>

\* the redis.set of the Promise.all rejects: the handler throws after the event
\* has been published; addVideo turns the failure into INTERNAL_ERROR
command_setRejects(t) ==
    /\ tasks[t].pc \in {"write", "volSet"}
    /\ tasks' = [tasks EXCEPT ![t] =
            Throw(t, IF tasks[t].cmd = "addVideo" THEN "internalError" ELSE "error")]
    /\ UNCHANGED <<rooms, clientRoom, wsConnections, subs, ncmds, now,
                   IS_ENCRYPTED_PASSWORD, instanceOf, roomCache, closed, embedCache, mongoRooms, mongoClients>>

\* addVideo / playNow / addVideoAndMoveToTop: const room = await validateRoom(roomId)
video_validateRoom(t) ==
    /\ tasks[t].pc = "vroom"
    /\ tasks[t].cmd \in {"addVideo", "playNow", "addVideoAndMoveToTop"}
    /\ LET T == tasks[t]
       IN  tasks' = [tasks EXCEPT ![t] =
             IF ~roomExists(T.roomId) THEN Throw(t, "roomNotFound")
             ELSE IF T.cmd = "addVideo" /\ includes(rooms[T.roomId].videoQueue, T.arg.video)
                  THEN Throw(t, "alreadyInQueue")
                  ELSE [T EXCEPT !.room = rooms[T.roomId], !.pc = "probe"]]
    /\ UNCHANGED <<rooms, clientRoom, wsConnections, subs, ncmds, now,
                   IS_ENCRYPTED_PASSWORD, instanceOf,
                   roomCache, closed,
                   embedCache, mongoRooms, mongoClients>>

\* what one call of checkEmbeddable can do: resolve true or false, or reject
ProbeOutcomes == {"true", "false", "reject"}

\* await checkEmbeddable(video.id), then the change of the room that was read
video_checkEmbeddable(t) ==
    /\ tasks[t].pc = "probe"
    /\ \E outcome \in ProbeOutcomes :
        LET T == tasks[t]
        IN  tasks' = [tasks EXCEPT ![t] =
              CASE outcome = "reject" ->
                      Throw(t, IF T.cmd = "addVideo" THEN "internalError" ELSE "error")
                [] outcome = "false" -> Throw(t, "videoNotEmbeddable")
                [] OTHER ->
                      roomUpdate(T,
                        CASE T.cmd = "addVideo" -> addVideo(T.room, T.arg.video, now)
                          [] T.cmd = "playNow" -> playVideoNow(T.room, T.arg.video, now)
                          [] OTHER -> addVideoAndMoveToTop(T.room, T.arg.video, now))]
    /\ UNCHANGED <<rooms, clientRoom, wsConnections, subs, ncmds, now,
                   IS_ENCRYPTED_PASSWORD, instanceOf,
                   roomCache, closed,
                   embedCache, mongoRooms, mongoClients>>

\* importPlaylist: const room = await validateRoom(roomId)
importPlaylist_validateRoom(t) ==
    /\ tasks[t].pc = "vroom"
    /\ tasks[t].cmd = "importPlaylist"
    /\ LET T == tasks[t]
       IN  tasks' = [tasks EXCEPT ![t] =
             IF ~roomExists(T.roomId) THEN Throw(t, "roomNotFound")
             ELSE [T EXCEPT !.room = rooms[T.roomId], !.pc = "playlist"]]
    /\ UNCHANGED <<rooms, clientRoom, wsConnections, subs, ncmds, now,
                   IS_ENCRYPTED_PASSWORD, instanceOf,
                   roomCache, closed,
                   embedCache, mongoRooms, mongoClients>>

\* const results = await youtubeSr.getPlaylist(url, {fetchAll: true, limit: 200})
importPlaylist_getPlaylist(t) ==
    /\ tasks[t].pc = "playlist"
    /\ \/ \E videos \in Playlists :
            tasks' = [tasks EXCEPT ![t] =
                IF Len(videos) = 0
                THEN roomUpdate(tasks[t], importPlaylist(tasks[t].room, << >>, now))
                ELSE [@ EXCEPT !.candidates = videos, !.i = 0, !.pc = "batch"]]
       \/ tasks' = [tasks EXCEPT ![t] = Throw(t, "error")]
    /\ UNCHANGED <<rooms, clientRoom, wsConnections, subs, ncmds, now,
                   IS_ENCRYPTED_PASSWORD, instanceOf,
                   roomCache, closed,
                   embedCache, mongoRooms, mongoClients>>

batchSize == 50

RECURSIVE batchResults(_, _, _)
\* the videos of a batch that are not in the queue that was read and whose probe
\* resolved true (the probe is only made for a video that is not in the queue)
batchResults(batch, probes, queue) ==
    IF batch = << >> THEN << >>
    ELSE (IF ~includes(queue, Head(batch)) /\ Head(probes) = "true"
          THEN << Head(batch) >> ELSE << >>)
         \o batchResults(Tail(batch), Tail(probes), queue)

\* one round of the batch loop: await Promise.all(batch.map(probe)), then either
\* the pause before the next batch or the change of the room that was read
importPlaylist_batch(t) ==
    /\ tasks[t].pc = "batch"
    /\ LET T == tasks[t]
           last == IF T.i + batchSize < Len(T.candidates) THEN T.i + batchSize
                   ELSE Len(T.candidates)
           batch == SubSeq(T.candidates, T.i + 1, last)
       IN  \E probes \in [1..Len(batch) -> ProbeOutcomes] :
             tasks' = [tasks EXCEPT ![t] =
               IF \E k \in 1..Len(batch) :
                     ~includes(T.room.videoQueue, batch[k]) /\ probes[k] = "reject"
               THEN [Throw(t, "error") EXCEPT !.candidates = << >>, !.i = 0,
                        !.embeddableVideos = << >>]
               ELSE LET found == T.embeddableVideos
                                   \o batchResults(batch, probes, T.room.videoQueue)
                    IN  IF T.i + batchSize < Len(T.candidates)
                        THEN [T EXCEPT !.i = T.i + batchSize, !.embeddableVideos = found]
                        ELSE [roomUpdate(T, importPlaylist(T.room, found, now))
                                EXCEPT !.candidates = << >>, !.i = 0,
                                       !.embeddableVideos = << >>]]
    /\ UNCHANGED <<rooms, clientRoom, wsConnections, subs, ncmds, now,
                   IS_ENCRYPTED_PASSWORD, instanceOf,
                   roomCache, closed,
                   embedCache, mongoRooms, mongoClients>>

\* ------------------------------------------------ the embed status checker
\* POST /check-embed for one video id: the handler of the request starts
checkEmbed(t, videoId) ==
    /\ tasks[t].pc = "idle"
    /\ \A u \in Tasks : tasks[u].pc = "idle" => t <= u
    /\ tasks' = [tasks EXCEPT ![t] =
            [IdleTask EXCEPT !.pc = "ceGet", !.cmd = "checkEmbed",
                             !.arg = [NoArg EXCEPT !.video = videoId],
                             !.seq = ncmds + 1, !.start = now]]
    /\ ncmds' = ncmds + 1
    /\ UNCHANGED <<rooms, clientRoom, wsConnections, subs, now, IS_ENCRYPTED_PASSWORD,
                   instanceOf, roomCache, closed, embedCache, mongoRooms, mongoClients>>

\* the answer of the request for the video: {videoId, canEmbed}
canEmbed(T, status) ==
    [T EXCEPT !.pc = "done", !.sent = Append(@, Msg("canEmbed", {}, status))]

\* const cachedStatus = await getCachedStatus(videoId): once in the route and,
\* after a miss, once more in checkEmbedStatus, which opens a page after a miss
getCachedStatus(t) ==
    /\ tasks[t].pc \in {"ceGet", "ceGetAgain"}
    /\ LET T == tasks[t]
           cachedStatus == embedCache[T.arg.video]
       IN  tasks' = [tasks EXCEPT ![t] =
             IF cachedStatus # "none" THEN canEmbed(T, cachedStatus)
             ELSE [T EXCEPT !.pc = IF T.pc = "ceGet" THEN "ceGetAgain" ELSE "ceProbe"]]
    /\ UNCHANGED <<rooms, clientRoom, wsConnections, subs, ncmds, now,
                   IS_ENCRYPTED_PASSWORD, instanceOf, roomCache, closed, embedCache, mongoRooms, mongoClients>>

\* page.goto(url) and page.evaluate: no response, an HTTP error or an exception
\* answer false without storing anything
checkEmbedStatus_probe(t) ==
    /\ tasks[t].pc = "ceProbe"
    /\ \E outcome \in ProbeOutcomes :
          tasks' = [tasks EXCEPT ![t] =
             IF outcome = "reject" THEN canEmbed(tasks[t], "false")
             ELSE [tasks[t] EXCEPT !.pc = "ceSet", !.err = outcome]]
    /\ UNCHANGED <<rooms, clientRoom, wsConnections, subs, ncmds, now,
                   IS_ENCRYPTED_PASSWORD, instanceOf, roomCache, closed, embedCache, mongoRooms, mongoClients>>

\* await setCachedStatus(videoId, canEmbed); return canEmbed
setCachedStatus(t) ==
    /\ tasks[t].pc = "ceSet"
    /\ embedCache' = [embedCache EXCEPT ![tasks[t].arg.video] = tasks[t].err]
    /\ tasks' = [tasks EXCEPT ![t] = canEmbed([tasks[t] EXCEPT !.err = "none"],
                                              tasks[t].err)]
    /\ UNCHANGED <<rooms, clientRoom, wsConnections, subs, ncmds, now,
                   IS_ENCRYPTED_PASSWORD, instanceOf, roomCache, closed, mongoRooms, mongoClients>>

\* redis drops the key CACHE_EXPIRATION seconds after it was set
expire(videoId) ==
    /\ embedCache[videoId] # "none"
    /\ embedCache' = [embedCache EXCEPT ![videoId] = "none"]
    /\ UNCHANGED <<rooms, clientRoom, wsConnections, subs, tasks, ncmds, now,
                   IS_ENCRYPTED_PASSWORD, instanceOf, roomCache, closed, mongoRooms, mongoClients>>

\* ----------------------------------------------------------- mongodb sync
\* the fields of roomSchema: what a Room document keeps of a room
roomSchema == DOMAIN NoRoom

\* RoomModel upsert { $set: room } and room.toObject()
roomDocument(room) == [f \in (DOMAIN room) \cap roomSchema |-> room[f]]

\* syncToMongoDB while no handler is running: every room:* and every client:*
\* with a roomId is upserted in one transaction; documents are never deleted
syncToMongoDB ==
    /\ \A t \in Tasks : tasks[t].pc = "idle"
    /\ mongoRooms' =
          [k \in (DOMAIN mongoRooms) \cup (DOMAIN rooms) |->
              IF k \in DOMAIN rooms THEN roomDocument(rooms[k]) ELSE mongoRooms[k]]
    /\ mongoClients' =
          [c \in Conns |-> IF clientRoom[c] # "none" THEN clientRoom[c]
                           ELSE mongoClients[c]]
    /\ UNCHANGED <<rooms, clientRoom, wsConnections, subs, tasks, ncmds, now,
                   IS_ENCRYPTED_PASSWORD, instanceOf, roomCache, closed, embedCache>>

\* syncFromMongoDB while no handler is running: redis.set of every Room
\* document and redis.hset of every Client document that has a roomId
syncFromMongoDB ==
    /\ \A t \in Tasks : tasks[t].pc = "idle"
    /\ rooms' =
          [k \in (DOMAIN rooms) \cup (DOMAIN mongoRooms) |->
              IF k \in DOMAIN mongoRooms THEN roomDocument(mongoRooms[k]) ELSE rooms[k]]
    /\ clientRoom' =
          [c \in Conns |-> IF mongoClients[c] # "none" THEN mongoClients[c]
                           ELSE clientRoom[c]]
    /\ UNCHANGED <<wsConnections, subs, tasks, ncmds, now, IS_ENCRYPTED_PASSWORD,
                   instanceOf, roomCache, closed, embedCache, mongoRooms, mongoClients>>

\* ------------------------------------------- syncToMongoDB, attempt by attempt
MAX_RETRIES == 3

\* what an awaited call of the MongoDB driver or of redis can do
CallOutcomes == {"resolve", "reject"}

\* the Room documents after the upserts of roomDocs
upsertRooms(docs, roomDocs) ==
    [k \in (DOMAIN docs) \cup (DOMAIN roomDocs) |->
        IF k \in DOMAIN roomDocs THEN roomDocs[k] ELSE docs[k]]

\* the Client documents after the upserts of clientDocs
upsertClients(docs, clientDocs) ==
    [c \in Conns |-> IF c \in DOMAIN clientDocs THEN clientDocs[c] ELSE docs[c]]

\* a sync-redis-to-db job starts: the readyState check, mongoose.connect when the
\* connection is not ready (a failed connect returns false)
syncToMongoDB_connect(t) ==
    /\ tasks[t].pc = "idle"
    /\ \A u \in Tasks : tasks[u].pc = "idle" => t <= u
    /\ \E ready \in BOOLEAN, connect \in CallOutcomes :
          tasks' = [tasks EXCEPT ![t] =
              IF ready \/ connect = "resolve"
              THEN [IdleTask EXCEPT !.pc = "syStart", !.cmd = "syncToMongoDB"]
              ELSE [IdleTask EXCEPT !.pc = "done", !.cmd = "syncToMongoDB",
                                    !.result = "false"]]
    /\ UNCHANGED <<rooms, clientRoom, wsConnections, subs, ncmds, now,
                   IS_ENCRYPTED_PASSWORD, instanceOf, roomCache, closed,
                   embedCache, mongoRooms, mongoClients>>

\* the head of the while loop (after RETRY_DELAY when retries > 0):
\* const session = await mongoose.startSession(); session.startTransaction();
\* both stand before the try, so a rejection leaves syncToMongoDB
syncToMongoDB_startSession(t) ==
    /\ tasks[t].pc = "syStart"
    /\ tasks[t].retries < MAX_RETRIES
    /\ \E outcome \in CallOutcomes :
          tasks' = [tasks EXCEPT ![t] =
              IF outcome = "resolve"
              THEN [@ EXCEPT !.pc = "syKeys",
                             !.session = [txn |-> "open", rooms |-> << >>,
                                          clients |-> << >>]]
              ELSE [@ EXCEPT !.pc = "done", !.result = "thrown"]]
    /\ UNCHANGED <<rooms, clientRoom, wsConnections, subs, ncmds, now,
                   IS_ENCRYPTED_PASSWORD, instanceOf, roomCache, closed,
                   embedCache, mongoRooms, mongoClients>>

\* roomKeys = await redis.keys('room:*'); clientKeys = await redis.keys('client:*');
\* with no key at all the session is ended and the result is true
syncToMongoDB_keys(t) ==
    /\ tasks[t].pc = "syKeys"
    /\ \E outcome \in CallOutcomes :
          LET roomKeys == DOMAIN rooms
              clientKeys == {c \in Conns : clientRoom[c] # "none"}
          IN  tasks' = [tasks EXCEPT ![t] =
                IF outcome = "reject" THEN [@ EXCEPT !.pc = "syAbort"]
                ELSE IF roomKeys = {} /\ clientKeys = {}
                     THEN [@ EXCEPT !.pc = "done", !.result = "true",
                                    !.session.txn = "ended"]
                     ELSE [@ EXCEPT !.pc = "syRooms", !.roomKeys = roomKeys,
                                    !.clientKeys = clientKeys]]
    /\ UNCHANGED <<rooms, clientRoom, wsConnections, subs, ncmds, now,
                   IS_ENCRYPTED_PASSWORD, instanceOf, roomCache, closed,
                   embedCache, mongoRooms, mongoClients>>

\* the batch of rooms (BATCH_SIZE is 100: one batch): redis.get of every key,
\* answered back to back, then await RoomModel.bulkWrite(bulkOps, { session })
syncToMongoDB_rooms(t) ==
    /\ tasks[t].pc = "syRooms"
    /\ \E outcome \in CallOutcomes :
          LET T == tasks[t]
              found == T.roomKeys \cap DOMAIN rooms
              roomDocs == [k \in found |-> roomDocument(rooms[k])]
          IN  tasks' = [tasks EXCEPT ![t] =
                IF outcome = "reject" THEN [@ EXCEPT !.pc = "syAbort"]
                ELSE [@ EXCEPT !.pc = "syClients",
                               !.session.rooms = upsertRooms(@, roomDocs)]]
    /\ UNCHANGED <<rooms, clientRoom, wsConnections, subs, ncmds, now,
                   IS_ENCRYPTED_PASSWORD, instanceOf, roomCache, closed,
                   embedCache, mongoRooms, mongoClients>>

\* the batch of clients: redis.hgetall of every key, then await
\* ClientModel.bulkWrite(bulkOps, { session }) of those that have a roomId
syncToMongoDB_clients(t) ==
    /\ tasks[t].pc = "syClients"
    /\ \E outcome \in CallOutcomes :
          LET T == tasks[t]
              found == {c \in T.clientKeys : clientRoom[c] # "none"}
              clientDocs == [c \in found |-> clientRoom[c]]
          IN  tasks' = [tasks EXCEPT ![t] =
                IF outcome = "reject" THEN [@ EXCEPT !.pc = "syAbort"]
                ELSE [@ EXCEPT !.pc = "syCommit", !.session.clients = clientDocs]]
    /\ UNCHANGED <<rooms, clientRoom, wsConnections, subs, ncmds, now,
                   IS_ENCRYPTED_PASSWORD, instanceOf, roomCache, closed,
                   embedCache, mongoRooms, mongoClients>>

\* await session.commitTransaction(); session.endSession(); return true
syncToMongoDB_commit(t) ==
    /\ tasks[t].pc = "syCommit"
    /\ \E outcome \in CallOutcomes :
          LET T == tasks[t]
          IN  IF outcome = "resolve"
              THEN /\ mongoRooms' = upsertRooms(mongoRooms, T.session.rooms)
                   /\ mongoClients' = upsertClients(mongoClients, T.session.clients)
                   /\ tasks' = [tasks EXCEPT ![t].pc = "done", ![t].result = "true",
                                             ![t].wrote = TRUE,
                                             ![t].session.txn = "committed"]
              ELSE /\ tasks' = [tasks EXCEPT ![t].pc = "syAbort"]
                   /\ UNCHANGED <<mongoRooms, mongoClients>>
    /\ UNCHANGED <<rooms, clientRoom, wsConnections, subs, ncmds, now,
                   IS_ENCRYPTED_PASSWORD, instanceOf, roomCache, closed, embedCache>>

\* catch: await session.abortTransaction(); session.endSession(); retries++;
\* return false after the last retry.  The await stands in the catch block:
\* when it rejects, the rejection leaves syncToMongoDB and the transaction is
\* left to the server
syncToMongoDB_abort(t) ==
    /\ tasks[t].pc = "syAbort"
    /\ \E outcome \in CallOutcomes :
          tasks' = [tasks EXCEPT ![t] =
              IF outcome = "reject"
              THEN [@ EXCEPT !.pc = "done", !.result = "thrown"]
              ELSE IF @.retries + 1 >= MAX_RETRIES
                   THEN [@ EXCEPT !.pc = "done", !.result = "false",
                                  !.retries = @ + 1, !.session.txn = "aborted",
                                  !.session.rooms = << >>, !.session.clients = << >>]
                   ELSE [@ EXCEPT !.pc = "syStart", !.retries = @ + 1,
                                  !.session.txn = "aborted",
                                  !.session.rooms = << >>, !.session.clients = << >>]]
    /\ UNCHANGED <<rooms, clientRoom, wsConnections, subs, ncmds, now,
                   IS_ENCRYPTED_PASSWORD, instanceOf, roomCache, closed,
                   embedCache, mongoRooms, mongoClients>>

\* ---------------------------------------------------------- specifications
Message(cmd, arg) == [cmd |-> cmd, arg |-> arg]

Quiet == \A t \in Tasks : tasks[t].pc = "idle"

MembershipSteps(t) ==
    \/ createRoom_exists(t) \/ createRoom_set(t)
    \/ joinRoom_validate(t)
    \/ leaveCurrentRoom_getClientInfo(t) \/ leaveCurrentRoom_validateRoom(t)
    \/ leaveCurrentRoom_set(t) \/ leaveCurrentRoom_hdel(t)
    \/ leaveCurrentRoom_activityGet(t) \/ leaveCurrentRoom_activitySet(t)
    \/ joinRoomInternal_validateRoom(t) \/ joinRoomInternal_set(t)
    \/ joinRoomInternal_hset(t)
    \/ joinRoom_activityGet(t) \/ joinRoom_activitySet(t)
    \/ Return(t)

\* Spec: createRoom, joinRoom, reJoinRoom, leaveRoom and closeRoom of rooms
\* without password, the handlers interleaving at every await
MembershipMessages ==
    {Message("createRoom", NoArg), Message("leaveRoom", NoArg),
     Message("closeRoom", NoArg)}
    \cup {Message(cmd, [NoArg EXCEPT !.roomId = r]) :
            cmd \in {"joinRoom", "reJoinRoom"}, r \in RoomIdSpace}

Next ==
    \/ \E c \in Conns : Open(c)
    \/ /\ ncmds < MaxCmds
       /\ \E t \in Tasks, c \in Conns, m \in MembershipMessages :
             handleMessage(t, c, m.cmd, m.arg)
    \/ \E t \in Tasks :
          \/ MembershipSteps(t)
          \/ validateClientInRoom(t) \/ handleCloseRoom(t)
          \/ closeRoom_validateRoom(t) \/ closeRoom_del(t)

Spec == Init /\ [][Next]_vars

\* SpecSerial: the commands of Spec, one command at a time
NextSerial ==
    \/ \E c \in Conns : Open(c)
    \/ /\ ncmds < MaxCmds
       /\ Quiet
       /\ \E t \in Tasks, c \in Conns, m \in MembershipMessages :
             handleMessage(t, c, m.cmd, m.arg)
    \/ \E t \in Tasks :
          \/ MembershipSteps(t)
          \/ validateClientInRoom(t) \/ handleCloseRoom(t)
          \/ closeRoom_validateRoom(t) \/ closeRoom_del(t)

SpecSerial == Init /\ [][NextSerial]_vars

\* SpecClose: connections join, leave and disconnect while the clock advances,
\* one handler at a time
CloseMessages ==
    {Message("createRoom", NoArg), Message("leaveRoom", NoArg)}
    \cup {Message("joinRoom", [NoArg EXCEPT !.roomId = r]) : r \in RoomIdSpace}

NextClose ==
    \/ \E c \in Conns : Open(c)
    \/ now < MaxTime /\ Tick(1)
    \/ /\ ncmds < MaxCmds
       /\ Quiet
       /\ \E t \in Tasks, c \in Conns, m \in CloseMessages :
             handleMessage(t, c, m.cmd, m.arg)
    \/ Quiet /\ \E t \in Tasks, c \in Conns : Close(t, c)
    \/ \E t \in Tasks : MembershipSteps(t)

SpecClose == Init /\ [][NextClose]_vars

\* SpecFleet: the connections are spread over the server processes; one
\* command at a time
FleetMessages ==
    {Message(cmd, NoArg) : cmd \in {"createRoom", "sendMessage", "pause", "closeRoom"}}
    \cup {Message("joinRoom", [NoArg EXCEPT !.roomId = r]) : r \in RoomIdSpace}

NextFleet ==
    \/ \E c \in Conns, instance \in Instances : Connect(c, instance)
    \/ /\ ncmds < MaxCmds
       /\ Quiet
       /\ \E t \in Tasks, c \in Conns, m \in FleetMessages :
             handleMessage(t, c, m.cmd, m.arg)
    \/ \E t \in Tasks :
          \/ MembershipSteps(t)
          \/ validateClientInRoom(t) \/ command_validateRoom(t) \/ command_set(t)
          \/ handleCloseRoom(t) \/ closeRoom_validateRoom(t) \/ closeRoom_del(t)

SpecFleet == Init /\ [][NextFleet]_vars

\* SpecVolume: setVolume through the room cache while the clock advances, one
\* command at a time
VolumeMessages ==
    {Message("createRoom", NoArg), Message("pause", NoArg)}
    \cup {Message("setVolume", [NoArg EXCEPT !.volume = v]) : v \in Volumes}
    \cup {Message("joinRoom", [NoArg EXCEPT !.roomId = r]) : r \in RoomIdSpace}

NextVolume ==
    \/ \E c \in Conns : Open(c)
    \/ now < MaxTime /\ Tick(1)
    \/ now < CACHE_TTL /\ Tick(CACHE_TTL)
    \/ /\ ncmds < MaxCmds
       /\ Quiet
       /\ \E t \in Tasks, c \in Conns, m \in VolumeMessages :
             handleMessage(t, c, m.cmd, m.arg)
    \/ \E t \in Tasks :
          \/ MembershipSteps(t)
          \/ validateClientInRoom(t) \/ command_validateRoom(t) \/ command_set(t)
          \/ setVolume_validateRoom(t) \/ setVolume_set(t)

SpecVolume == Init /\ [][NextVolume]_vars

\* SpecNextVideo: nextVideo / videoFinished applied to a room in any state of
\* its player and queues
VideoLists ==
    {<< >>} \cup {<< v >> : v \in Videos}
    \cup {s \in Videos \X Videos : s[1] # s[2]}

InitNextVideo ==
    /\ \E videoQueue \in VideoLists, historyQueue \in VideoLists,
          playingNow \in Videos \cup {"none"}, isPlaying \in BOOLEAN,
          currentTime \in {0, 5} :
          rooms = [r \in {"100000"} |->
                     [newRoom("100000", "a", "none", 0) EXCEPT
                         !.videoQueue = videoQueue, !.historyQueue = historyQueue,
                         !.playingNow = playingNow, !.isPlaying = isPlaying,
                         !.currentTime = currentTime]]
    /\ clientRoom = [c \in Conns |-> IF c = "a" THEN "100000" ELSE "none"]
    /\ wsConnections = {"a"}
    /\ subs = {<<"a", "100000">>}
    /\ tasks = [t \in Tasks |-> IdleTask]
    /\ ncmds = 0
    /\ now = 0
    /\ IS_ENCRYPTED_PASSWORD = FALSE
    /\ instanceOf = [c \in Conns |-> 1]
    /\ roomCache = [i \in Instances |-> << >>]
    /\ closed = {}
    /\ embedCache = [v \in Videos |-> "none"]
    /\ mongoRooms = << >>
    /\ mongoClients = [c \in Conns |-> "none"]

NextNextVideo ==
    \/ /\ ncmds < MaxCmds
       /\ Quiet
       /\ \E t \in Tasks, cmd \in {"nextVideo", "videoFinished"} :
             handleMessage(t, "a", cmd, NoArg)
    \/ \E t \in Tasks :
          \/ validateClientInRoom(t) \/ command_validateRoom(t) \/ command_set(t)
          \/ Return(t)

SpecNextVideo == InitNextVideo /\ [][NextNextVideo]_vars

\* SpecSweep: the cleanup job of the lifecycle worker and the commands of the
\* members, one at a time, except that a joinRoom may run during a cleanup job;
\* the clock advances by hours between the handlers
SweepMessages ==
    {Message(cmd, NoArg) : cmd \in {"createRoom", "leaveRoom", "pause"}}
    \cup {Message("joinRoom", [NoArg EXCEPT !.roomId = r]) : r \in RoomIdSpace}
    \cup {Message("addVideo", [NoArg EXCEPT !.video = v]) : v \in Videos}

HourMs == 60 * 60 * 1000

NextSweep ==
    \/ \E c \in Conns : Open(c)
    \/ now < MaxSweepHours * HourMs /\ Quiet /\ Tick(HourMs)
    \/ /\ ncmds < MaxCmds
       /\ \A u \in Tasks : tasks[u].cmd \in {"none", "cleanup"}
       /\ \E t \in Tasks, c \in Conns, m \in SweepMessages :
             /\ Quiet \/ m.cmd = "joinRoom"
             /\ handleMessage(t, c, m.cmd, m.arg)
    \/ Quiet /\ \E t \in Tasks : cleanup(t)
    \/ \E t \in Tasks :
          \/ MembershipSteps(t)
          \/ validateClientInRoom(t) \/ command_validateRoom(t) \/ command_set(t)
          \/ video_validateRoom(t) \/ video_checkEmbeddable(t)
          \/ cleanupInactiveRooms_keys(t) \/ cleanupInactiveRooms_get(t)
          \/ closeRoom_validateRoom(t) \/ closeRoom_del(t)
          \/ cleanupOrphanedClients_keys(t) \/ cleanupOrphanedClients_hgetall(t)
          \/ cleanupOrphanedClients_exists(t) \/ cleanupOrphanedClients_del(t)

SpecSweep == Init /\ [][NextSweep]_vars

\* SpecPassword: rooms with and without password under both storage schemes,
\* one command at a time
InitPassword ==
    /\ rooms = << >>
    /\ clientRoom = [c \in Conns |-> "none"]
    /\ wsConnections = {}
    /\ subs = {}
    /\ tasks = [t \in Tasks |-> IdleTask]
    /\ ncmds = 0
    /\ now = 0
    /\ IS_ENCRYPTED_PASSWORD \in BOOLEAN
    /\ instanceOf = [c \in Conns |-> 1]
    /\ roomCache = [i \in Instances |-> << >>]
    /\ closed = {}
    /\ embedCache = [v \in Videos |-> "none"]
    /\ mongoRooms = << >>
    /\ mongoClients = [c \in Conns |-> "none"]

PasswordMessages ==
    {Message("createRoom", [NoArg EXCEPT !.password = p]) :
        p \in {"none"} \cup Passwords}
    \cup {Message(cmd, [NoArg EXCEPT !.roomId = r, !.password = p]) :
            cmd \in {"joinRoom", "reJoinRoom"}, r \in RoomIdSpace,
            p \in {"none"} \cup Passwords \cup WrongPasswords}

NextPassword ==
    \/ \E c \in Conns : Open(c)
    \/ /\ ncmds < MaxCmds
       /\ Quiet
       /\ \E t \in Tasks, c \in Conns, m \in PasswordMessages :
             handleMessage(t, c, m.cmd, m.arg)
    \/ \E t \in Tasks :
          \/ MembershipSteps(t)
          \/ createRoom_hash(t) \/ joinRoom_verify(t)

SpecPassword == InitPassword /\ [][NextPassword]_vars

\* SpecOverlap: a room is set up one command at a time; the addVideo, nextVideo
\* and pause handlers of its members then interleave at every await
SetupMessages ==
    {Message("createRoom", NoArg)}
    \cup {Message("joinRoom", [NoArg EXCEPT !.roomId = r]) : r \in RoomIdSpace}

OverlapMessages ==
    {Message("pause", NoArg), Message("nextVideo", NoArg)}
    \cup {Message("addVideo", [NoArg EXCEPT !.video = v]) : v \in Videos}

NextOverlap ==
    \/ \E c \in Conns : Open(c)
    \/ /\ ncmds < MaxOverlapCmds
       /\ Quiet
       /\ \E t \in Tasks, c \in Conns, m \in SetupMessages :
             handleMessage(t, c, m.cmd, m.arg)
    \/ /\ ncmds < MaxOverlapCmds
       /\ \A u \in Tasks : tasks[u].cmd \notin {"createRoom", "joinRoom"}
       /\ \E t \in Tasks, c \in Conns, m \in OverlapMessages :
             handleMessage(t, c, m.cmd, m.arg)
    \/ \E t \in Tasks :
          \/ MembershipSteps(t)
          \/ validateClientInRoom(t) \/ command_validateRoom(t) \/ command_set(t)
          \/ video_validateRoom(t) \/ video_checkEmbeddable(t)

SpecOverlap == Init /\ [][NextOverlap]_vars

\* SpecReopen: closeRoom of the creator while an addVideo of the room is running
ReopenMessages ==
    {Message("closeRoom", NoArg)}
    \cup {Message("addVideo", [NoArg EXCEPT !.video = v]) : v \in Videos}

NextReopen ==
    \/ \E c \in Conns : Open(c)
    \/ /\ ncmds < MaxCmds
       /\ Quiet
       /\ \E t \in Tasks, c \in Conns, m \in SetupMessages :
             handleMessage(t, c, m.cmd, m.arg)
    \/ /\ ncmds < MaxCmds
       /\ \A u \in Tasks : tasks[u].cmd \notin {"createRoom", "joinRoom"}
       /\ \E t \in Tasks, c \in Conns, m \in ReopenMessages :
             handleMessage(t, c, m.cmd, m.arg)
    \/ \E t \in Tasks :
          \/ MembershipSteps(t)
          \/ validateClientInRoom(t) \/ handleCloseRoom(t)
          \/ closeRoom_validateRoom(t) \/ closeRoom_del(t)
          \/ video_validateRoom(t) \/ video_checkEmbeddable(t) \/ command_set(t)

SpecReopen == Init /\ [][NextReopen]_vars

\* SpecQueue: every command on the player and the queues, one command at a time
QueueMessages ==
    {Message(cmd, NoArg) :
        cmd \in {"createRoom", "nextVideo", "videoFinished", "play", "pause", "replay",
                 "shuffleQueue", "clearQueue", "clearHistory", "importPlaylist"}}
    \cup {Message("joinRoom", [NoArg EXCEPT !.roomId = r]) : r \in RoomIdSpace}
    \cup {Message(cmd, [NoArg EXCEPT !.video = v]) :
            cmd \in {"addVideo", "playNow", "addVideoAndMoveToTop", "moveToTop",
                     "removeVideoFromQueue"}, v \in Videos}
    \cup {Message("seek", [NoArg EXCEPT !.time = time]) : time \in SeekTimes}
    \cup {Message("setVolume", [NoArg EXCEPT !.volume = v]) : v \in Volumes}

NextQueue ==
    \/ \E c \in Conns : Open(c)
    \/ /\ ncmds < MaxCmds
       /\ Quiet
       /\ \E t \in Tasks, c \in Conns, m \in QueueMessages :
             handleMessage(t, c, m.cmd, m.arg)
    \/ \E t \in Tasks :
          \/ MembershipSteps(t)
          \/ validateClientInRoom(t) \/ command_validateRoom(t) \/ command_set(t)
          \/ video_validateRoom(t) \/ video_checkEmbeddable(t)
          \/ importPlaylist_validateRoom(t) \/ importPlaylist_getPlaylist(t)
          \/ importPlaylist_batch(t)
          \/ setVolume_validateRoom(t) \/ setVolume_set(t)

SpecQueue == Init /\ [][NextQueue]_vars

\* SpecErrors: commands that fail with a RoomError or with another error; a
\* command starts when the handlers before it have ended, their promises settled
\* or not
Settled == \A t \in Tasks : tasks[t].pc \in {"idle", "done"}

ErrorMessages ==
    {Message(cmd, NoArg) : cmd \in {"createRoom", "pause", "importPlaylist"}}
    \cup {Message("joinRoom", [NoArg EXCEPT !.roomId = r]) : r \in RoomIdSpace}
    \cup {Message("addVideo", [NoArg EXCEPT !.video = v]) : v \in Videos}

NextErrors ==
    \/ \E c \in Conns : Open(c)
    \/ /\ ncmds < MaxCmds
       /\ Settled
       /\ \E t \in Tasks, c \in Conns, m \in ErrorMessages :
             handleMessage(t, c, m.cmd, m.arg)
    \/ \E t \in Tasks :
          \/ MembershipSteps(t)
          \/ validateClientInRoom(t) \/ command_validateRoom(t) \/ command_set(t)
          \/ video_validateRoom(t) \/ video_checkEmbeddable(t)
          \/ importPlaylist_validateRoom(t) \/ importPlaylist_getPlaylist(t)
          \/ importPlaylist_batch(t)

SpecErrors == Init /\ [][NextErrors]_vars

\* SpecQueueLaws: addVideo, removeVideoFromQueue, moveToTop and shuffleQueue of
\* one member on a room whose queue and player state Init draws; the queue may
\* hold three entries (importPlaylist can store a video twice)
QueueLists == VideoLists \cup (Videos \X Videos \X Videos)

InitQueueLaws ==
    /\ \E videoQueue \in QueueLists, playingNow \in Videos \cup {"none"} :
          rooms = [r \in {"100000"} |->
                     [newRoom("100000", "a", "none", 0) EXCEPT
                         !.videoQueue = videoQueue, !.playingNow = playingNow,
                         !.isPlaying = (playingNow # "none")]]
    /\ clientRoom = [c \in Conns |-> IF c = "a" THEN "100000" ELSE "none"]
    /\ wsConnections = {"a"}
    /\ subs = {<<"a", "100000">>}
    /\ tasks = [t \in Tasks |-> IdleTask]
    /\ ncmds = 0
    /\ now = 0
    /\ IS_ENCRYPTED_PASSWORD = FALSE
    /\ instanceOf = [c \in Conns |-> 1]
    /\ roomCache = [i \in Instances |-> << >>]
    /\ closed = {}
    /\ embedCache = [v \in Videos |-> "none"]
    /\ mongoRooms = << >>
    /\ mongoClients = [c \in Conns |-> "none"]

QueueLawMessages ==
    {Message("shuffleQueue", NoArg)}
    \cup {Message(cmd, [NoArg EXCEPT !.video = v]) :
            cmd \in {"addVideo", "removeVideoFromQueue", "moveToTop"}, v \in Videos}

NextQueueLaws ==
    \/ now < MaxTime /\ Settled /\ Tick(1)
    \/ /\ ncmds < MaxCmds
       /\ Settled
       /\ \E t \in Tasks, m \in QueueLawMessages : handleMessage(t, "a", m.cmd, m.arg)
    \/ \E t \in Tasks :
          \/ validateClientInRoom(t) \/ command_validateRoom(t) \/ command_set(t)
          \/ video_validateRoom(t) \/ video_checkEmbeddable(t)
          \/ Return(t)

SpecQueueLaws == InitQueueLaws /\ [][NextQueueLaws]_vars

\* SpecAck: frames with and without id and requiresAck
MessageIds == {"none", "", "m1"}

AckMessages ==
    {Message(cmd, [NoArg EXCEPT !.id = id, !.requiresAck = requiresAck]) :
        cmd \in {"ping", "createRoom", "pause", "leaveRoom"}, id \in MessageIds,
        requiresAck \in BOOLEAN}
    \cup {Message("joinRoom", [NoArg EXCEPT !.roomId = r]) : r \in RoomIdSpace}

NextAck ==
    \/ \E c \in Conns : Open(c)
    \/ /\ ncmds < MaxCmds
       /\ Settled
       /\ \E t \in Tasks, c \in Conns, m \in AckMessages :
             handleMessage(t, c, m.cmd, m.arg)
    \/ \E t \in Tasks :
          \/ MembershipSteps(t)
          \/ validateClientInRoom(t) \/ command_validateRoom(t) \/ command_set(t)

SpecAck == Init /\ [][NextAck]_vars

\* SpecEmbed: the embed status checker and the commands that ask whether a
\* video is embeddable
EmbedMessages ==
    {Message("createRoom", NoArg), Message("importPlaylist", NoArg)}
    \cup {Message("joinRoom", [NoArg EXCEPT !.roomId = r]) : r \in RoomIdSpace}
    \cup {Message(cmd, [NoArg EXCEPT !.video = v]) :
            cmd \in {"addVideo", "playNow", "addVideoAndMoveToTop"}, v \in Videos}

NextEmbed ==
    \/ \E c \in Conns : Open(c)
    \/ /\ ncmds < MaxCmds
       /\ Settled
       /\ \/ \E t \in Tasks, c \in Conns, m \in EmbedMessages :
                handleMessage(t, c, m.cmd, m.arg)
          \/ \E t \in Tasks, v \in Videos : checkEmbed(t, v)
    \/ \E v \in Videos : Settled /\ expire(v)
    \/ \E t \in Tasks :
          \/ MembershipSteps(t)
          \/ validateClientInRoom(t)
          \/ video_validateRoom(t) \/ video_checkEmbeddable(t) \/ command_set(t)
          \/ importPlaylist_validateRoom(t) \/ importPlaylist_getPlaylist(t)
          \/ importPlaylist_batch(t)
          \/ getCachedStatus(t) \/ checkEmbedStatus_probe(t) \/ setCachedStatus(t)

SpecEmbed == Init /\ [][NextEmbed]_vars

\* SpecCache: setVolume, which goes through getRoomWithCache, between commands
\* that read the room from the store, on a room Init draws
CacheMessages ==
    {Message("pause", NoArg), Message("clearQueue", NoArg)}
    \cup {Message("setVolume", [NoArg EXCEPT !.volume = v]) : v \in Volumes}

NextCache ==
    \/ now < MaxTime /\ Tick(1)
    \/ now < CACHE_TTL /\ Tick(CACHE_TTL)
    \/ /\ ncmds < MaxCmds
       /\ Quiet
       /\ \E t \in Tasks, m \in CacheMessages : handleMessage(t, "a", m.cmd, m.arg)
    \/ \E t \in Tasks :
          \/ validateClientInRoom(t) \/ command_validateRoom(t) \/ command_set(t)
          \/ setVolume_validateRoom(t) \/ setVolume_set(t)
          \/ Return(t)

SpecCache == InitQueueLaws /\ [][NextCache]_vars

\* SpecStore: commands whose write to the store may be rejected
StoreMessages ==
    {Message(cmd, NoArg) : cmd \in {"createRoom", "pause", "nextVideo"}}
    \cup {Message("joinRoom", [NoArg EXCEPT !.roomId = r]) : r \in RoomIdSpace}
    \cup {Message("addVideo", [NoArg EXCEPT !.video = v]) : v \in Videos}
    \cup {Message("setVolume", [NoArg EXCEPT !.volume = v]) : v \in Volumes}

NextStore ==
    \/ \E c \in Conns : Open(c)
    \/ /\ ncmds < MaxCmds
       /\ Quiet
       /\ \E t \in Tasks, c \in Conns, m \in StoreMessages :
             handleMessage(t, c, m.cmd, m.arg)
    \/ \E t \in Tasks :
          \/ MembershipSteps(t)
          \/ validateClientInRoom(t) \/ command_validateRoom(t) \/ command_set(t)
          \/ video_validateRoom(t) \/ video_checkEmbeddable(t)
          \/ setVolume_validateRoom(t) \/ setVolume_set(t)
          \/ command_setRejects(t)

SpecStore == Init /\ [][NextStore]_vars

\* SpecSync: membership commands and pause, one after the other, with the two
\* sync jobs running between them
SyncMessages ==
    {Message(cmd, NoArg) : cmd \in {"createRoom", "leaveRoom", "closeRoom", "pause"}}
    \cup {Message("joinRoom", [NoArg EXCEPT !.roomId = r]) : r \in RoomIdSpace}

NextSync ==
    \/ \E c \in Conns : Open(c)
    \/ /\ ncmds < MaxCmds
       /\ Quiet
       /\ \E t \in Tasks, c \in Conns, m \in SyncMessages :
             handleMessage(t, c, m.cmd, m.arg)
    \/ syncToMongoDB
    \/ syncFromMongoDB
    \/ \E t \in Tasks :
          \/ MembershipSteps(t)
          \/ validateClientInRoom(t) \/ command_validateRoom(t) \/ command_set(t)
          \/ handleCloseRoom(t) \/ closeRoom_validateRoom(t) \/ closeRoom_del(t)

SpecSync == Init /\ [][NextSync]_vars

\* SpecStale: membership commands and disconnects, one handler at a time,
\* except that a joinRoom may run during a closeRoom
StaleMessages ==
    {Message(cmd, NoArg) : cmd \in {"createRoom", "leaveRoom", "closeRoom"}}
    \cup {Message("joinRoom", [NoArg EXCEPT !.roomId = r]) : r \in RoomIdSpace}

NextStale ==
    \/ \E c \in Conns : Open(c)
    \/ /\ ncmds < MaxOverlapCmds
       /\ \A u \in Tasks : tasks[u].cmd \in {"none", "closeRoom"}
       /\ \E t \in Tasks, c \in Conns, m \in StaleMessages :
             /\ Quiet \/ m.cmd = "joinRoom"
             /\ handleMessage(t, c, m.cmd, m.arg)
    \/ Quiet /\ \E t \in Tasks, c \in Conns : Close(t, c)
    \/ \E t \in Tasks :
          \/ MembershipSteps(t)
          \/ validateClientInRoom(t) \/ handleCloseRoom(t)
          \/ closeRoom_validateRoom(t) \/ closeRoom_del(t)

SpecStale == Init /\ [][NextStale]_vars

\* SpecOrphans: the cleanup job of the worker runs while the members create,
\* join and close rooms; the handlers of the members run one at a time
OrphanMessages ==
    {Message(cmd, NoArg) : cmd \in {"createRoom", "closeRoom"}}
    \cup {Message("joinRoom", [NoArg EXCEPT !.roomId = r]) : r \in RoomIdSpace}

NextOrphans ==
    \/ \E c \in Conns : Open(c)
    \/ /\ ncmds < MaxOverlapCmds
       /\ \A u \in Tasks : tasks[u].cmd \in {"none", "cleanup"}
       /\ \E t \in Tasks, c \in Conns, m \in OrphanMessages :
             handleMessage(t, c, m.cmd, m.arg)
    \/ /\ \A u \in Tasks : tasks[u].cmd # "cleanup"
       /\ \E t \in Tasks : cleanup(t)
    \/ \E t \in Tasks :
          \/ MembershipSteps(t)
          \/ validateClientInRoom(t) \/ handleCloseRoom(t)
          \/ cleanupInactiveRooms_keys(t) \/ cleanupInactiveRooms_get(t)
          \/ closeRoom_validateRoom(t) \/ closeRoom_del(t)
          \/ cleanupOrphanedClients_keys(t) \/ cleanupOrphanedClients_hgetall(t)
          \/ cleanupOrphanedClients_exists(t) \/ cleanupOrphanedClients_del(t)

SpecOrphans == Init /\ [][NextOrphans]_vars

\* SpecIntegrity: the data-integrity pass of the worker runs while the members
\* create, join and close rooms and pause; the handlers of the members run one at
\* a time
IntegrityMessages ==
    {Message(cmd, NoArg) : cmd \in {"createRoom", "pause", "closeRoom"}}
    \cup {Message("joinRoom", [NoArg EXCEPT !.roomId = r]) : r \in RoomIdSpace}

NextIntegrity ==
    \/ \E c \in Conns : Open(c)
    \/ /\ ncmds < MaxCmds
       /\ \A u \in Tasks : tasks[u].cmd \in {"none", "validate"}
       /\ \E t \in Tasks, c \in Conns, m \in IntegrityMessages :
             handleMessage(t, c, m.cmd, m.arg)
    \/ /\ \A u \in Tasks : tasks[u].cmd # "validate"
       /\ \E t \in Tasks : validateDataIntegrity_keys(t)
    \/ \E t \in Tasks :
          \/ MembershipSteps(t)
          \/ validateClientInRoom(t) \/ command_validateRoom(t) \/ command_set(t)
          \/ handleCloseRoom(t) \/ closeRoom_validateRoom(t) \/ closeRoom_del(t)
          \/ validateDataIntegrity_hgetall(t) \/ validateDataIntegrity_exists(t)
          \/ validateDataIntegrity_del(t) \/ validateDataIntegrity_roomKeys(t)
          \/ validateDataIntegrity_get(t) \/ validateDataIntegrity_clientExists(t)
          \/ validateDataIntegrity_set(t)

SpecIntegrity == Init /\ [][NextIntegrity]_vars

\* SpecHistory: nextVideo, videoFinished, playNow and clearHistory on a room in
\* any state of its player and queue, one command after the other
HistoryMessages ==
    {Message(cmd, NoArg) : cmd \in {"nextVideo", "videoFinished", "clearHistory"}}
    \cup {Message("playNow", [NoArg EXCEPT !.video = v]) : v \in Videos}

NextHistory ==
    \/ /\ ncmds < MaxCmds
       /\ Settled
       /\ \E t \in Tasks, m \in HistoryMessages : handleMessage(t, "a", m.cmd, m.arg)
    \/ \E t \in Tasks :
          \/ validateClientInRoom(t) \/ command_validateRoom(t) \/ command_set(t)
          \/ video_validateRoom(t) \/ video_checkEmbeddable(t)
          \/ Return(t)

SpecHistory == InitQueueLaws /\ [][NextHistory]_vars

\* SpecRetry: createRoom and joinRoom, one handler at a time, while a
\* sync-redis-to-db job goes through its attempts
RetryMessages ==
    {Message("createRoom", NoArg)}
    \cup {Message("joinRoom", [NoArg EXCEPT !.roomId = r]) : r \in RoomIdSpace}

NextRetry ==
    \/ \E c \in Conns : Open(c)
    \/ /\ ncmds < MaxCmds
       /\ \A u \in Tasks : tasks[u].cmd \in {"none", "syncToMongoDB"}
       /\ \E t \in Tasks, c \in Conns, m \in RetryMessages :
             handleMessage(t, c, m.cmd, m.arg)
    \/ /\ \A u \in Tasks : tasks[u].cmd # "syncToMongoDB"
       /\ \E t \in Tasks : syncToMongoDB_connect(t)
    \/ \E t \in Tasks :
          \/ MembershipSteps(t)
          \/ syncToMongoDB_startSession(t) \/ syncToMongoDB_keys(t)
          \/ syncToMongoDB_rooms(t) \/ syncToMongoDB_clients(t)
          \/ syncToMongoDB_commit(t) \/ syncToMongoDB_abort(t)

SpecRetry == Init /\ [][NextRetry]_vars

\* ------------------------------------------------------------------ claims
Members(room) == {room.clients[i] : i \in 1..Len(room.clients)}

Content(room) ==
    {room.videoQueue[i] : i \in 1..Len(room.videoQueue)}
    \cup {room.historyQueue[i] : i \in 1..Len(room.historyQueue)}
    \cup ({room.playingNow} \ {"none"})

Succeeded(t, cmd) ==
    tasks[t].pc = "done" /\ tasks[t].cmd = cmd /\ tasks[t].err = "none"

SentTypes(t) == {tasks[t].sent[i].type : i \in 1..Len(tasks[t].sent)}

\* C1: when addVideo(v1) and addVideo(v2), v1 # v2, of two different members of
\* one room have both completed, the stored room holds both videos (the result
\* of the two commands in some order): neither effect is lost.
C1_NoLostUpdate ==
    \A t1, t2 \in Tasks :
        (/\ Succeeded(t1, "addVideo") /\ Succeeded(t2, "addVideo")
         /\ tasks[t1].ws # tasks[t2].ws
         /\ tasks[t1].roomId = tasks[t2].roomId
         /\ tasks[t1].arg.video # tasks[t2].arg.video
         /\ roomExists(tasks[t1].roomId)
         /\ {tasks[t1].ws, tasks[t2].ws} \subseteq Members(rooms[tasks[t1].roomId]))
        => {tasks[t1].arg.video, tasks[t2].arg.video}
               \subseteq Content(rooms[tasks[t1].roomId])

\* C2: in every reachable state, the states between the awaits of createRoom,
\* joinRoom and reJoinRoom included, a connection identity is in the clients
\* list of at most one room.
C2_AtMostOneRoom ==
    \A c \in Conns :
        Cardinality({r \in DOMAIN rooms : includes(rooms[r].clients, c)}) <= 1

\* C3: in every stored room state, playingNow null implies isPlaying false and
\* currentTime 0.
C3_NothingPlaying ==
    \A r \in DOMAIN rooms :
        rooms[r].playingNow = "none"
            => (~rooms[r].isPlaying /\ rooms[r].currentTime = 0)

Verifies(password, stored) ==
    /\ ~isNullish(password)
    /\ IF IS_ENCRYPTED_PASSWORD THEN bcryptVerify(password, stored)
       ELSE password = stored

\* C5: a joinRoom / reJoinRoom on a room that has a password and whose password
\* field is omitted or does not verify is answered with errorWithCode
\* incorrectPassword and writes nothing (the sender is neither added to clients
\* nor bound to the room).
C5_PasswordRequired ==
    \A t \in Tasks :
        (/\ tasks[t].pc = "done"
         /\ tasks[t].cmd \in {"joinRoom", "reJoinRoom"}
         /\ roomExists(tasks[t].arg.roomId)
         /\ ~isNullish(rooms[tasks[t].arg.roomId].password)
         /\ ~Verifies(tasks[t].arg.password, rooms[tasks[t].arg.roomId].password))
        => (tasks[t].err = "incorrectPassword" /\ ~tasks[t].wrote)

\* C6: the step in which a closeRoom of the creator deletes the room (read with
\* members M) leaves no record of the room, no member of M with a roomId in its
\* client record, and every connected member of M with a roomClosed event; and a
\* joinRoom that looks up an id without record is answered roomNotFound.
C6_CloseRoomByCreator ==
    [][\A t \in Tasks :
        /\ (tasks[t].cmd = "closeRoom" /\ tasks[t].pc = "closeDel"
                /\ tasks'[t].pc = "done")
           => /\ tasks'[t].err = "none"
              /\ tasks[t].roomId \notin DOMAIN rooms'
              /\ \A m \in Members(tasks[t].room) : clientRoom'[m] = "none"
              /\ \A m \in Members(tasks[t].room) \cap wsConnections :
                    \E i \in 1..Len(tasks'[t].sent) :
                        /\ tasks'[t].sent[i].type = "roomClosed"
                        /\ m \in tasks'[t].sent[i].to
        /\ (tasks[t].cmd = "joinRoom" /\ tasks[t].pc = "jrValidate"
                /\ ~roomExists(tasks[t].arg.roomId) /\ tasks'[t] # tasks[t])
           => /\ tasks'[t].pc = "done"
              /\ tasks'[t].err = "roomNotFound"
              /\ ~tasks'[t].wrote
      ]_vars

C6_Witness ==
    \E t \in Tasks :
        /\ Succeeded(t, "closeRoom")
        /\ Cardinality(Members(tasks[t].room)) = 2
        /\ tasks[t].room.creatorId = tasks[t].ws
        /\ ~roomExists(tasks[t].roomId)
        /\ \A m \in Members(tasks[t].room) : clientRoom[m] = "none"
        /\ \E i \in 1..Len(tasks[t].sent) :
              /\ tasks[t].sent[i].type = "roomClosed"
              /\ tasks[t].sent[i].to = Members(tasks[t].room)

\* C7: the creator check of a closeRoom whose sender is bound to a room it did
\* not create ends the command with errorWithCode notCreatorOfRoom; the command
\* has written nothing, sent no roomClosed, and the room records, the client
\* records and the subscriptions are unchanged.
C7_CloseRoomByNonCreator ==
    [][\A t \in Tasks :
        (/\ tasks[t].cmd = "closeRoom" /\ tasks[t].pc = "vroom"
         /\ roomExists(tasks[t].roomId)
         /\ rooms[tasks[t].roomId].creatorId # tasks[t].ws
         /\ tasks'[t] # tasks[t])
        => /\ tasks'[t].pc = "done"
           /\ tasks'[t].err = "notCreatorOfRoom"
           /\ ~tasks'[t].wrote
           /\ \A i \in 1..Len(tasks'[t].sent) : tasks'[t].sent[i].type # "roomClosed"
           /\ UNCHANGED <<rooms, clientRoom, subs,
                   embedCache, mongoRooms, mongoClients>>
      ]_vars

C7_Witness ==
    \E t \in Tasks :
        /\ tasks[t].pc = "done" /\ tasks[t].cmd = "closeRoom"
        /\ tasks[t].err = "notCreatorOfRoom"
        /\ roomExists(tasks[t].roomId)
        /\ Members(rooms[tasks[t].roomId]) = Conns
        /\ clientRoom[tasks[t].ws] = tasks[t].roomId
        /\ SentTypes(t) = {"errorWithCode"}

\* C8: createRoom never writes its room over the record of a room that exists,
\* and two createRoom commands never answer with the same roomId.
C8_UniqueRoomId ==
    /\ \A t \in Tasks : tasks[t].pc = "crSet" => ~roomExists(tasks[t].roomId)
    /\ \A t1, t2 \in Tasks :
          (t1 # t2 /\ Succeeded(t1, "createRoom") /\ Succeeded(t2, "createRoom"))
          => tasks[t1].roomId # tasks[t2].roomId

\* C9: on a successful createRoom the sender receives roomCreated before the
\* roomJoined of the new room.
C9_CreatedBeforeJoined ==
    \A t \in Tasks :
        Succeeded(t, "createRoom")
        => \E i, j \in 1..Len(tasks[t].sent) :
              /\ i < j
              /\ tasks[t].sent[i].type = "roomCreated"
              /\ tasks[t].sent[j].type = "roomJoined"

\* C10: a command answered with errorWithCode or error has written no room
\* record and no client record.
C10_FailureWritesNothing ==
    \A t \in Tasks :
        (tasks[t].pc = "done" /\ tasks[t].err # "none") => ~tasks[t].wrote

\* C11: when the close handler of a connection that was bound to room R has
\* finished, the connection is not in R.clients, its client record has no roomId
\* and R.lastActivity is a time of the handler's run; leaveRoom ends in the same
\* state of the store.
C11_CloseLeavesRoom ==
    \A t \in Tasks :
        (/\ tasks[t].pc = "done" /\ tasks[t].cmd \in {"close", "leaveRoom"}
         /\ tasks[t].leaveId # "none")
        => /\ tasks[t].err = "none"
           /\ clientRoom[tasks[t].ws] = "none"
           /\ roomExists(tasks[t].leaveId)
           /\ tasks[t].ws \notin Members(rooms[tasks[t].leaveId])
           /\ rooms[tasks[t].leaveId].lastActivity \in tasks[t].start..now
           /\ <<tasks[t].ws, tasks[t].leaveId>> \notin subs
           /\ tasks[t].cmd = "close" => tasks[t].ws \notin wsConnections

C11_Witness ==
    \E t \in Tasks :
        /\ tasks[t].pc = "done" /\ tasks[t].cmd = "close" /\ tasks[t].err = "none"
        /\ tasks[t].leaveId # "none"
        /\ tasks[t].start > 0
        /\ Members(rooms[tasks[t].leaveId]) # {}
        /\ rooms[tasks[t].leaveId].lastActivity >= tasks[t].start

\* C12: while the handler of a command is running, the handler of a later
\* command of the same connection has neither read nor written the room (its
\* broadcast is published after it read the room).
C12_ArrivalOrder ==
    \A t1, t2 \in Tasks :
        (/\ tasks[t1].pc \notin {"idle", "done"} /\ tasks[t2].pc # "idle"
         /\ tasks[t1].ws = tasks[t2].ws
         /\ tasks[t1].seq < tasks[t2].seq)
        => /\ tasks[t2].room = NoRoom
           /\ ~tasks[t2].wrote

\* the events broadcastToRoom and closeRoom send to the members of a room
RoomEvents ==
    {"roomUpdate", "play", "pause", "replay", "message", "currentTimeChanged",
     "volumeChanged", "roomClosed"}

\* C13: an event a command handled on one instance broadcasts for room R is
\* delivered to every member of R, the members connected to another instance
\* included.
C13_DeliveredToEveryMember ==
    \A t \in Tasks :
        \A i \in 1..Len(tasks[t].sent) :
            (tasks[t].sent[i].type \in RoomEvents /\ roomExists(tasks[t].roomId))
            => Members(rooms[tasks[t].roomId]) \subseteq tasks[t].sent[i].to

\* C14: in every stored room state volume is an integer in [0, 100].
C14_VolumeClamped ==
    \A r \in DOMAIN rooms :
        /\ rooms[r].volume \in 0..(100 * VolumeUnit)
        /\ rooms[r].volume % VolumeUnit = 0

\* C15: the write of nextVideo / videoFinished on a room with a non-empty
\* videoQueue makes the head of the queue playingNow (isPlaying true, currentTime
\* 0) and keeps the rest of the queue in order; with an empty queue it leaves
\* playingNow null, isPlaying false, currentTime 0; the previous playingNow, if
\* any, is the head of historyQueue, followed by the earlier history without the
\* entries of the same id.
C15_NextVideo ==
    [][\A t \in Tasks :
        (/\ tasks[t].pc = "write" /\ tasks[t].cmd \in {"nextVideo", "videoFinished"}
         /\ tasks'[t].pc = "done")
        => LET old == rooms[tasks[t].roomId]
               new == rooms'[tasks[t].roomId]
               Other(v) == v # old.playingNow
           IN  /\ Len(old.videoQueue) > 0 =>
                     /\ new.playingNow = old.videoQueue[1]
                     /\ new.videoQueue = Tail(old.videoQueue)
                     /\ new.isPlaying /\ new.currentTime = 0
               /\ Len(old.videoQueue) = 0 =>
                     /\ new.playingNow = "none" /\ new.videoQueue = << >>
                     /\ ~new.isPlaying /\ new.currentTime = 0
               /\ old.playingNow # "none" =>
                     new.historyQueue =
                        << old.playingNow >> \o SelectSeq(old.historyQueue, Other)
               /\ old.playingNow = "none" => new.historyQueue = old.historyQueue
      ]_vars

C15_Witness ==
    \E t \in Tasks :
        /\ tasks[t].pc = "write" /\ tasks[t].cmd = "nextVideo"
        /\ rooms[tasks[t].roomId].playingNow = "v1"
        /\ rooms[tasks[t].roomId].videoQueue = << "v2" >>
        /\ rooms[tasks[t].roomId].historyQueue = << "v2", "v1" >>
        /\ tasks[t].room.playingNow = "v2"
        /\ tasks[t].room.videoQueue = << >>
        /\ tasks[t].room.historyQueue = << "v1", "v2" >>
        /\ tasks[t].room.isPlaying

\* the extended timeout of a playing room, in milliseconds
ExtendedTimeout(room) ==
    LET hours == MIN_VIDEO_TIMEOUT_HOURS * 3600 * 1000
        scaled == VIDEO_DURATION_MULTIPLIER * duration(room.playingNow) * 1000
    IN  IF hours >= scaled THEN hours ELSE scaled

\* the sweep decides in this step to close room r
SweepCloses(t, r) ==
    /\ tasks[t].cmd = "cleanup" /\ tasks[t].pc = "swGet"
    /\ tasks'[t].pc = "closeRead" /\ tasks'[t].roomId = r

C17_RoomUpdateWithoutClients ==
    \A t \in Tasks :
        \A i \in 1..Len(tasks[t].sent) :
            tasks[t].sent[i].type = "roomUpdate"
            => "clients" \notin DOMAIN tasks[t].sent[i].arg

\* a roomUpdate with the queue of the room has been published to a room that
\* has two members
C17_Witness ==
    \E t \in Tasks :
        \E i \in 1..Len(tasks[t].sent) :
            /\ tasks[t].sent[i].type = "roomUpdate"
            /\ tasks[t].sent[i].to = Conns
            /\ roomExists(tasks[t].roomId)
            /\ Len(rooms[tasks[t].roomId].clients) = 2
            /\ "videoQueue" \in DOMAIN tasks[t].sent[i].arg

\* the commands handleMessage dispatches without validateClientInRoom
Unvalidated == {"ping", "createRoom", "joinRoom", "reJoinRoom"}

\* C18: a command other than ping, createRoom and joinRoom (reJoinRoom) issued
\* by a connection that is bound to no room is answered with errorWithCode
\* notInRoom and changes no room and no client record.
C18_UnboundAnsweredNotInRoom ==
    [][\A t \in Tasks :
        (/\ tasks[t].ws \in Conns
         /\ tasks[t].cmd \notin Unvalidated \cup {"close"}
         /\ tasks[t].pc = firstPc(tasks[t].cmd)
         /\ clientRoom[tasks[t].ws] = "none"
         /\ tasks'[t] # tasks[t])
        => /\ tasks'[t].pc = "done"
           /\ tasks'[t].sent = << Msg("errorWithCode", {tasks[t].ws}, "notInRoom") >>
           /\ rooms' = rooms /\ clientRoom' = clientRoom
      ]_vars

\* the error events handleError sends
ErrorEvents == {"error", "errorWithCode"}

\* C19: a command that fails leaves the connection open: the step in which its
\* handler fails sends the sender one errorWithCode with the code of the
\* RoomError, or one error with the constant message for any other failure, and
\* the connection stays in the connection table, so that its later commands are
\* processed.
C19_ErrorKeepsConnection ==
    [][\A t \in Tasks :
        (tasks[t].err = "none" /\ tasks'[t].err # "none")
        => LET code == tasks'[t].err
               type == IF code = "error" THEN "error" ELSE "errorWithCode"
           IN  /\ tasks'[t].sent = Append(tasks[t].sent, Msg(type, {tasks[t].ws}, code))
               /\ \A i \in 1..Len(tasks[t].sent) :
                     tasks[t].sent[i].type \notin ErrorEvents
               /\ tasks[t].ws \in wsConnections'
               /\ tasks[t].ws \notin closed'
      ]_vars

\* a command of a connection has failed with an error that is no RoomError and
\* the next command of the same connection has been processed and answered
C19_Witness ==
    \E t, u \in Tasks :
        /\ tasks[t].pc = "done" /\ tasks[t].err = "error"
        /\ tasks[u].ws = tasks[t].ws /\ tasks[u].seq = tasks[t].seq + 1
        /\ tasks[u].pc = "done" /\ tasks[u].err = "none"
        /\ \E i \in 1..Len(tasks[u].sent) : tasks[u].sent[i].type = "pause"

\* the commands that change a room or its member list
Mutating ==
    {"createRoom", "joinRoom", "reJoinRoom", "leaveRoom", "addVideo", "playNow",
     "addVideoAndMoveToTop", "moveToTop", "removeVideoFromQueue", "shuffleQueue",
     "clearQueue", "clearHistory", "nextVideo", "videoFinished", "play", "pause",
     "replay", "seek", "setVolume", "importPlaylist"}

\* the lastActivity of a stored room was taken from the clock while T was running
StampedBy(T, roomId) ==
    (roomId # "none" /\ roomExists(roomId))
    => rooms[roomId].lastActivity \in T.start..now

C21_CreatorIdFixed ==
    [][/\ \A r \in (DOMAIN rooms) \cap (DOMAIN rooms') :
             rooms'[r].creatorId = rooms[r].creatorId
       /\ \A t \in Tasks :
             (tasks[t].cmd = "createRoom" /\ tasks[t].pc = "crSet"
                 /\ tasks'[t].pc # "crSet")
             => rooms'[tasks[t].roomId].creatorId = tasks[t].ws
      ]_vars

\* the write of the command cmd of task t takes effect in this step
Writes(t, cmd) ==
    tasks[t].pc = "write" /\ tasks[t].cmd = cmd /\ tasks'[t].pc = "done"

\* C22: when addVideo(v) is stored on a room where something is playing or the
\* queue is not empty, and v is not in videoQueue, removeVideoFromQueue(v) on the
\* stored room gives back the videoQueue of before addVideo, entries and order,
\* and playingNow has not changed.
C22_AddThenRemove ==
    [][\A t \in Tasks :
        LET r == tasks[t].roomId
            v == tasks[t].arg.video
        IN  (/\ Writes(t, "addVideo")
             /\ (rooms[r].playingNow # "none" \/ Len(rooms[r].videoQueue) > 0)
             /\ ~includes(rooms[r].videoQueue, v))
            => LET removed == removeVideoFromQueue(rooms'[r], v, now)
               IN  /\ removed.videoQueue = rooms[r].videoQueue
                   /\ removed.playingNow = rooms[r].playingNow
                   /\ rooms'[r].playingNow = rooms[r].playingNow
      ]_vars

\* addVideo(v1) and then removeVideoFromQueue(v1) have run on a room that plays
\* v1 and has v2 in its queue: the queue is again v2 alone
C22_Witness ==
    \E t, u \in Tasks :
        /\ tasks[t].cmd = "addVideo" /\ tasks[t].arg.video = "v1"
        /\ tasks[t].pc = "done" /\ tasks[t].err = "none"
        /\ tasks[u].cmd = "removeVideoFromQueue" /\ tasks[u].arg.video = "v1"
        /\ tasks[u].pc = "done" /\ tasks[u].err = "none"
        /\ tasks[u].seq = tasks[t].seq + 1 /\ tasks[t].seq = 1
        /\ rooms["100000"].videoQueue = << "v2" >>
        /\ rooms["100000"].playingNow = "v1"

\* C23: moveToTop(id) with id in videoQueue stores a queue with that entry at
\* index 0 followed by the entries of the other ids in their previous order;
\* applied again, by the operator or by the next command of the connection, it
\* stores the same queue. With id not in the queue the handler fails with
\* videoNotFound and the store does not change.
C23_MoveToTopIdempotent ==
    [][\A t \in Tasks :
        LET r == tasks[t].roomId
            id == tasks[t].arg.video
            Other(v) == v # id
        IN  /\ Writes(t, "moveToTop") =>
                  /\ rooms'[r].videoQueue =
                        << id >> \o SelectSeq(rooms[r].videoQueue, Other)
                  /\ moveVideoToTop(rooms'[r], id, now).videoQueue = rooms'[r].videoQueue
                  /\ \A u \in Tasks :
                        (/\ tasks[u].cmd = "moveToTop" /\ tasks[u].arg.video = id
                         /\ tasks[u].pc = "done" /\ tasks[u].err = "none"
                         /\ tasks[u].seq + 1 = tasks[t].seq)
                        => rooms'[r].videoQueue = rooms[r].videoQueue
            /\ (/\ tasks[t].pc = "vroom" /\ tasks[t].cmd = "moveToTop"
                 /\ tasks'[t] # tasks[t] /\ roomExists(r)
                 /\ ~includes(rooms[r].videoQueue, id)) =>
                  /\ tasks'[t].pc = "done" /\ tasks'[t].err = "videoNotFound"
                  /\ rooms' = rooms
      ]_vars

\* moveToTop(v2) has run twice in a row on a queue that had v2 behind v1
C23_Witness ==
    \E t, u \in Tasks :
        /\ tasks[t].cmd = "moveToTop" /\ tasks[t].arg.video = "v2"
        /\ tasks[t].pc = "done" /\ tasks[t].err = "none"
        /\ tasks[u].cmd = "moveToTop" /\ tasks[u].arg.video = "v2"
        /\ tasks[u].pc = "done" /\ tasks[u].err = "none"
        /\ tasks[u].seq = tasks[t].seq + 1
        /\ rooms["100000"].videoQueue = << "v2", "v1", "v1" >>

\* how many entries of the list s are x
Count(s, x) == Cardinality({i \in 1..Len(s) : s[i] = x})

\* C24: the queue shuffleQueue stores is a permutation of the queue it replaces,
\* for queues of 0, 1, 2 and 3 entries, and apart from videoQueue and
\* lastActivity the stored room is the one of before.
C24_ShufflePermutes ==
    [][\A t \in Tasks :
        Writes(t, "shuffleQueue")
        => LET old == rooms[tasks[t].roomId]
               new == rooms'[tasks[t].roomId]
           IN  /\ Len(new.videoQueue) = Len(old.videoQueue)
               /\ \A v \in Videos : Count(new.videoQueue, v) = Count(old.videoQueue, v)
               /\ [new EXCEPT !.videoQueue = old.videoQueue,
                              !.lastActivity = old.lastActivity] = old
      ]_vars

\* shuffleQueue is about to store a queue of three entries in another order
C24_Witness ==
    \E t \in Tasks :
        /\ tasks[t].pc = "write" /\ tasks[t].cmd = "shuffleQueue"
        /\ rooms[tasks[t].roomId].videoQueue = << "v1", "v2", "v1" >>
        /\ tasks[t].room.videoQueue = << "v2", "v1", "v1" >>

\* C25: the handler of a frame with requiresAck true has sent the sender an ack
\* with the id of the frame before anything else: the ack is the first event it
\* has sent, and it is sent before the handler writes to the store.
C25_AckFirst ==
    \A t \in Tasks :
        (tasks[t].pc # "idle" /\ tasks[t].arg.requiresAck)
        => /\ Len(tasks[t].sent) > 0
           /\ tasks[t].sent[1] = Msg("ack", {tasks[t].ws}, tasks[t].arg.id)

\* C26: while youtube_embed_status:<videoId> holds a probe result, every check
\* whether videoId is embeddable (the checker's route, addVideo, playNow,
\* addVideoAndMoveToTop, importPlaylist) answers with the stored value and
\* probes nothing.
C26_CachedStatusIsUsed ==
    [][\A t \in Tasks :
        LET T == tasks[t]
            cached == embedCache[T.arg.video]
        IN  /\ (/\ T.pc = "probe" /\ tasks'[t].pc # "probe"
                 /\ T.arg.video \in Videos /\ cached # "none")
                => /\ cached = "false" => tasks'[t].err = "videoNotEmbeddable"
                   /\ cached = "true" => tasks'[t].err = "none"
            /\ (/\ T.pc \in {"ceGet", "ceGetAgain"} /\ tasks'[t] # T
                 /\ cached # "none")
                => tasks'[t] = canEmbed(T, cached)
            /\ (/\ T.pc = "batch" /\ tasks'[t] # T /\ tasks'[t].err = "none")
                => \A k \in 1..Len(tasks'[t].embeddableVideos) :
                      embedCache[tasks'[t].embeddableVideos[k]] # "false"
      ]_vars

\* C27: the room setVolume writes differs from the room that was in the store
\* just before the write in volume and lastActivity only, also when another
\* command has changed the room in the 2 seconds before.
C27_SetVolumeFrame ==
    [][\A t \in Tasks :
        (/\ tasks[t].cmd = "setVolume" /\ tasks[t].pc = "volSet"
         /\ tasks'[t].pc = "done" /\ roomExists(tasks[t].roomId))
        => LET old == rooms[tasks[t].roomId]
               new == rooms'[tasks[t].roomId]
           IN  [new EXCEPT !.volume = old.volume, !.lastActivity = old.lastActivity]
                   = old
      ]_vars

\* the events that describe the new state of a room
StateEvents ==
    {"roomUpdate", "play", "pause", "replay", "currentTimeChanged", "volumeChanged"}

\* C28: a command whose write to the store failed has published no event for the
\* state it did not store.
C28_PublishedOnlyIfStored ==
    \A t \in Tasks :
        tasks[t].err # "none"
        => \A i \in 1..Len(tasks[t].sent) : tasks[t].sent[i].type \notin StateEvents

\* C29: a room that is not in the store enters it only by the redis.set of a
\* createRoom: no handler that read room R before closeRoom deleted it writes
\* room:R back.
C29_DeletedStaysDeleted ==
    [][\A r \in (DOMAIN rooms') \ (DOMAIN rooms) :
          \E t \in Tasks :
              /\ tasks[t].cmd = "createRoom" /\ tasks[t].pc = "crSet"
              /\ tasks[t].roomId = r
      ]_vars

\* C30: a step that is no step of a command handler, the reverse sync among
\* them, leaves the rooms and the client bindings of the shared store as they
\* are: it brings back no room and no binding that was deleted and replaces no
\* room by an older state.
C30_SyncKeepsStore ==
    [][tasks' = tasks => (rooms' = rooms /\ clientRoom' = clientRoom)]_vars

\* C31: when the close handler of a connection has finished, the connection is
\* no longer in the connection table of the process, whether the leave
\* side-effects succeeded or failed (the room its record names may be gone).
C31_ClosedIsUnregistered ==
    \A t \in Tasks :
        (tasks[t].cmd = "close" /\ tasks[t].pc = "done")
            => tasks[t].ws \notin wsConnections

\* the commands that begin with leaveCurrentRoom
Leaving == {"leaveRoom", "createRoom", "joinRoom"}

\* C32: leaveRoom, createRoom and joinRoom of a connection whose client record
\* names a room that is no longer in the store get past leaveCurrentRoom: the
\* read of the missing room does not end the command with an error, so the
\* command goes on to clear the binding.
C32_StaleBindingIsLeft ==
    [][\A t \in Tasks :
          (/\ tasks[t].pc = "lcRoom"
           /\ tasks[t].cmd \in Leaving
           /\ clientRoom[tasks[t].ws] = tasks[t].leaveId
           /\ ~roomExists(tasks[t].leaveId))
              => (tasks'[t].pc = "lcRoom" \/ tasks'[t].err = "none")
      ]_vars

\* C33: when the sweep deletes a room for inactivity, the lastActivity the
\* store holds for the room at that moment is older than the timeout that
\* applies to the room: a command or a join that stamped the room after the
\* sweep read it keeps the room in the store.
C33_EvictedRoomIsIdle ==
    [][\A t \in Tasks :
          (/\ tasks[t].cmd = "cleanup" /\ tasks[t].pc = "closeDel"
           /\ tasks'[t].pc # "closeDel"
           /\ tasks[t].reason = "Room has been closed due to inactivity"
           /\ roomExists(tasks[t].roomId))
              => isInactive(rooms[tasks[t].roomId], now)
      ]_vars

\* the cleanup job deletes the client record of connection c in this step
OrphanDeleted(t, c) ==
    /\ tasks[t].cmd = "cleanup" /\ tasks[t].pc = "ocDel"
    /\ tasks'[t].pc # "ocDel"
    /\ Head(tasks[t].candidates) = c

\* C34: cleanupOrphanedClients goes on to delete a record it found naming a
\* room that is not in the store, and every record it deletes names, at the
\* moment of the deletion, a room that is not in the store, also while
\* createRoom and joinRoom run next to the job.  (No code writes lastSeen, so
\* the job reads no record that has lastSeen and no roomId.)
C34_OnlyOrphansDeleted ==
    [][\A t \in Tasks :
          /\ (tasks[t].cmd = "cleanup" /\ tasks[t].pc = "ocExists"
              /\ ~roomExists(tasks[t].leaveId) /\ tasks'[t] # tasks[t])
                 => tasks'[t].pc = "ocDel"
          /\ \A c \in Conns :
                (OrphanDeleted(t, c) /\ clientRoom[c] # "none")
                    => ~roomExists(clientRoom[c])
      ]_vars

\* the members of a room that have a client record
Recorded(clients) ==
    LET hasRecord(c) == c \in Conns /\ clientRoom[c] # "none"
    IN  SelectSeq(clients, hasRecord)

\* C35: the write of the data-integrity pass stores the room as the store holds
\* it at that moment with its clients filtered to those that have a client
\* record (no member with a record is dropped, no change made since the pass
\* read the room is lost), and a createRoom/joinRoom next to the pass binds a
\* connection only to a room whose clients list holds it.
C35_IntegrityPassKeepsMembers ==
    [][\A t \in Tasks :
          /\ (tasks[t].cmd = "validate" /\ tasks[t].pc = "viSet"
              /\ tasks'[t].pc # "viSet" /\ roomExists(Head(tasks[t].candidates)))
                 => LET key == Head(tasks[t].candidates)
                    IN  rooms'[key] =
                           [rooms[key] EXCEPT !.clients = Recorded(@)]
          /\ (tasks[t].pc = "jiHset" /\ tasks'[t].pc # "jiHset")
                 => /\ roomExists(tasks[t].roomId)
                    /\ includes(rooms[tasks[t].roomId].clients, tasks[t].ws)
      ]_vars

\* no two entries of the historyQueue of a stored room are the same video
HistoryDistinct ==
    \A r \in DOMAIN rooms :
        \A i, j \in 1..Len(rooms[r].historyQueue) :
            rooms[r].historyQueue[i] = rooms[r].historyQueue[j] => i = j

\* C36: after every step of nextVideo, videoFinished, playNow and clearHistory
\* no room has the same video twice in historyQueue, and when the write of
\* nextVideo, videoFinished or playNow lands on a room that was playing a video,
\* that video is the first entry of the stored historyQueue.
C36_HistoryDistinctNewestFirst ==
    [][/\ HistoryDistinct'
       /\ \A t \in Tasks : \A cmd \in {"nextVideo", "videoFinished", "playNow"} :
            (Writes(t, cmd) /\ rooms[tasks[t].roomId].playingNow # "none")
               => /\ rooms'[tasks[t].roomId].historyQueue # << >>
                  /\ Head(rooms'[tasks[t].roomId].historyQueue)
                        = rooms[tasks[t].roomId].playingNow
      ]_vars

\* three commands in a row: after a nextVideo and a further move to the history
\* the history holds v1, the video played last, in front of v2
C36_Witness ==
    \E t \in Tasks :
        /\ tasks[t].pc = "done" /\ tasks[t].wrote /\ tasks[t].seq = 3
        /\ tasks[t].cmd \in {"nextVideo", "videoFinished", "playNow"}
        /\ \E u \in Tasks :
              /\ tasks[u].pc = "done" /\ tasks[u].wrote /\ tasks[u].seq = 2
              /\ tasks[u].cmd \in {"nextVideo", "videoFinished"}
        /\ rooms["100000"].historyQueue = <<"v1", "v2">>

\* C37: the currentTime of every stored room is a number that is not negative,
\* whatever time a seek carries.
C37_CurrentTimeNotNegative ==
    \A r \in DOMAIN rooms : rooms[r].currentTime >= 0

\* C38: whenever no command handler and no worker job is in progress, the
\* client record of connection c names room R exactly when R is in the store
\* and c is in the clients of R.
C38_RecordMatchesMembership ==
    Quiet =>
        \A c \in Conns : \A r \in RoomIdSpace :
            (clientRoom[c] = r) <=> (roomExists(r) /\ c \in Members(rooms[r]))

\* the commands that call an external adapter without a catch of their own
AdapterCommands == {"importPlaylist", "playNow", "addVideoAndMoveToTop"}

\* C39: when the playlist expansion or an embeddable probe of importPlaylist,
\* playNow or addVideoAndMoveToTop fails (the call rejects; a probe that
\* resolves false is no failure), the sender is sent errorWithCode with code
\* internalError and the stored rooms are as before.
C39_AdapterFailureIsInternalError ==
    [][\A t \in Tasks :
          (/\ tasks[t].cmd \in AdapterCommands
           /\ tasks[t].pc \in {"playlist", "batch", "probe"}
           /\ tasks'[t].err \notin {"none", "videoNotEmbeddable"})
              => /\ tasks'[t].sent =
                       Append(tasks[t].sent,
                              Msg("errorWithCode", {tasks[t].ws}, "internalError"))
                 /\ rooms' = rooms
      ]_vars

\* C40: syncToMongoDB does not throw; an attempt starts only after fewer than
\* MAX_RETRIES failed attempts; the result true is given by the step that
\* commits or that finds no key; the result false of the retry loop comes with
\* the third failed attempt; and the documents of MongoDB change only in a step
\* that commits a transaction, so nothing of a failed attempt is kept.
C40_SyncToMongoDBReturns ==
    [][/\ \A t \in Tasks :
            tasks[t].cmd = "syncToMongoDB" =>
              /\ tasks'[t].result # "thrown"
              /\ (tasks[t].pc = "syStart" /\ tasks'[t].pc # "syStart")
                    => tasks[t].retries < MAX_RETRIES
              /\ (tasks[t].result = "none" /\ tasks'[t].result = "true")
                    => tasks[t].pc \in {"syCommit", "syKeys"}
              /\ (tasks[t].result = "none" /\ tasks'[t].result = "false")
                    => tasks'[t].retries = MAX_RETRIES
       /\ (mongoRooms' # mongoRooms \/ mongoClients' # mongoClients)
             => \E t \in Tasks :
                   /\ tasks[t].pc = "syCommit" /\ tasks'[t].result = "true"
                   /\ tasks'[t].session.txn = "committed"
      ]_vars

====
